---- MODULE Spec2Model ----
(***************************************************************************)
(* Model of the worksheet intake queue: the job repository                 *)
(* (tool-a-intake/src/repository.js), the atomic JSON store (fs-json.js),  *)
(* the worksheet id scheme (id.js) and the batch worker                    *)
(* (scripts/process_queue, src/unnamed/part_003 lines 380-965).            *)
(*                                                                         *)
(* Timestamps are clock ticks (1..MaxTime); 0 stands for null / an absent  *)
(* field.  Error messages are sequences of words; the empty sequence is    *)
(* null.                                                                   *)
(***************************************************************************)
EXTENDS Integers, Sequences, FiniteSets, TLC

VARIABLES
  meta,       \* metadata/<id>.json : record, or NoMeta when the file is absent
  queue,      \* queue/pending.json : the jobs array
  intake,     \* intake/<id>/original.zip : mtime of the artifact, NoTime when absent
  now,        \* wall clock (Date.now / new Date)
  enqueued,   \* ids whose enqueueUploadedWorksheet call returned its metadata
  lastOp,     \* the operation that completed last and what it returned
  wPhase,     \* per batch run: position in main / processWorksheet
  wIds,       \* per batch run: worksheetIds returned by resolveWorksheetIds
  wPos,       \* per batch run: index of the id being processed
  wTarget,    \* per batch run: --ws= argument (NoTarget when absent)
  wMetaRead,  \* per batch run: `current` read by updateMetadata
  wQueueRead, \* per batch run: `queue` read by updateQueueState
  wErr,       \* per batch run: message of the caught error
  wState,     \* per batch run: state the pending updateMetadata / updateQueueState writes
  wRuns,      \* number of batch runs started, statement by statement
  lockChain,  \* writeLocks chain of the intake process: tasks waiting for the lock
  ePc,        \* running enqueue task: next statement
  eId,        \* running enqueue task: worksheetId
  eUploadedAt,\* running enqueue task: uploadedAt
  eQueue,     \* running enqueue task: `queue` read from pending.json
  eCalls,     \* number of enqueue calls made, statement by statement
  arg,        \* argument of the call under check (id scheme)
  fsDir,      \* directory of one JSON file: name -> inode (0 when the name is absent)
  fsData,     \* inode -> chunks written so far
  wrPc,       \* per writeJsonAtomic call: next statement
  wrPid,      \* per writeJsonAtomic call: process.pid of the caller
  wrTmp,      \* per writeJsonAtomic call: tempPath
  wrIno,      \* per writeJsonAtomic call: inode the open file handle refers to
  rdPc,       \* reader (readJson): next statement
  rdIno,      \* reader: inode the open file handle refers to
  rdData,     \* reader: raw content handed to JSON.parse
  shippable,  \* shippable/<id> : what the directory holds
  rTimeoutMs, \* run: options.timeoutMs, in clock ticks
  rChild,     \* run: the spawned child process
  rFinished,  \* run: `finished`
  rTimeoutId, \* run: the timer behind `timeoutId`
  rHardKillId,\* run: the timer behind `hardKillId`
  rSettled,   \* run: the resolve / reject calls made on the promise
  rSignals,   \* run: the child.kill calls made
  rStdout,    \* run: `stdout`
  rStderr,    \* run: `stderr`
  corrupt,    \* files whose content is not valid JSON ("pending" or a worksheet id)
  layout,     \* ensureStorageLayout calls: position of each, pending.json seen or created
  wMode,      \* per batch run: --mode= argument
  mv          \* moveFileSafe call: next statement, the two files, the outcome

repoVars   == <<meta, queue, intake, enqueued>>
workerVars == <<wPhase, wIds, wPos, wTarget, wMetaRead, wQueueRead, wErr, wState, wRuns>>
intakeVars == <<lockChain, ePc, eId, eUploadedAt, eQueue, eCalls>>
pipeVars   == <<shippable>>
runVars    == <<rTimeoutMs, rChild, rFinished, rTimeoutId, rHardKillId, rSettled,
                rSignals, rStdout, rStderr>>
storeVars  == <<arg, fsDir, fsData, wrPc, wrPid, wrTmp, wrIno, rdPc, rdIno, rdData>>
optionVars == <<wMode>>
moveVars   == <<mv>>
infraVars  == <<corrupt, layout, optionVars, moveVars>>
leafVars   == <<storeVars, pipeVars, runVars, infraVars>>
vars == <<meta, queue, intake, now, enqueued, lastOp,
          wPhase, wIds, wPos, wTarget, wMetaRead, wQueueRead, wErr, wState, wRuns,
          lockChain, ePc, eId, eUploadedAt, eQueue, eCalls,
          arg, fsDir, fsData, wrPc, wrPid, wrTmp, wrIno, rdPc, rdIno, rdData,
          shippable, rTimeoutMs, rChild, rFinished, rTimeoutId, rHardKillId, rSettled,
          rSignals, rStdout, rStderr, corrupt, layout, wMode, mv>>

----------------------------------------------------------------------------
(* Bounds and program constants                                            *)

WorksheetIds == {"a", "b"}
DirOrder     == <<"a", "b">>     \* order in which readdir lists the ids
Workers      == {"w1", "w2"}     \* batch invocations (processes)
SeqWorkers   == {"w1"}           \* one batch invocation at a time

MaxTime      == 3                \* the clock stops ticking here
MaxAttempts  == 2                \* claims are cut off at this attempts value
MaxCalls     == 2                \* enqueue calls made, statement by statement
MaxRuns      == 1                \* batch runs started, statement by statement

NoTime   == 0
NoTarget == "none"
NoMeta   == [state |-> "absent", uploaded_at |-> NoTime,
             integrated_at |-> NoTime, last_error |-> <<>>]
NoError  == <<>>

\* PROCESSING_STALE_MS, in clock ticks
StaleProcessingMs == 2
\* MAX_FAILED_ATTEMPTS
MaxFailedAttempts == 2
\* RETRY_FAILED_JOBS
RetryFailedJobs == TRUE

----------------------------------------------------------------------------
(* Error messages and the retry-by-pattern policy                          *)

ErrBuild   == <<"npm", "run", "build", "failed", "(1)">>
ErrNoRoot  == <<"No", "package.json", "found", "in", "extracted", "worksheet">>
ErrTimeout == <<"npm", "install", "timed", "out", "after", "360000ms">>
ErrDns     == <<"getaddrinfo", "enotfound", "registry.npmjs.org">>
ErrReset   == <<"read", "ECONNRESET">>
PipelineErrors == {ErrBuild, ErrDns}

\* case folding of the words the patterns look for (the /i flag)
Lower(w) ==
  CASE w = "ENOTFOUND"  -> "enotfound"
    [] w = "ETIMEDOUT"  -> "etimedout"
    [] w = "ECONNRESET" -> "econnreset"
    [] OTHER -> w

HasWord(text, w) == \E i \in DOMAIN text : Lower(text[i]) = w

HasWordPair(text, w1, w2) ==
  \E i \in DOMAIN text :
    /\ i + 1 \in DOMAIN text
    /\ Lower(text[i]) = w1
    /\ Lower(text[i + 1]) = w2

isRetryableFailureAlways(errorMessage) == TRUE

isRetryableFailure(errorMessage) ==
  \/ HasWordPair(errorMessage, "enotfound", "registry.npmjs.org")
  \/ HasWordPair(errorMessage, "enotfound", "api.openai.com")
  \/ HasWord(errorMessage, "etimedout")
  \/ HasWord(errorMessage, "econnreset")
  \/ \E i \in DOMAIN errorMessage :
       /\ i + 3 \in DOMAIN errorMessage
       /\ Lower(errorMessage[i]) = "network"
       /\ Lower(errorMessage[i + 1]) = "request"
       /\ Lower(errorMessage[i + 2]) = "to"
       /\ Lower(errorMessage[i + 3]) = "https://registry.npmjs.org"

----------------------------------------------------------------------------
(* Pending-list document                                                   *)

MetaStates  == {"queued", "processing", "integrated", "failed"}
QueueStates == {"queued", "processing", "completed", "failed"}

IsFinite(n) == n >= 0

IndexOf(jobs, id) ==
  IF \E i \in DOMAIN jobs : jobs[i].worksheet_id = id
  THEN CHOOSE i \in DOMAIN jobs :
         /\ jobs[i].worksheet_id = id
         /\ \A j \in DOMAIN jobs : jobs[j].worksheet_id = id => i <= j
  ELSE 0

Count(jobs, id) == Cardinality({i \in DOMAIN jobs : jobs[i].worksheet_id = id})

JobOf(jobs, id) == jobs[IndexOf(jobs, id)]

\* nextJob built by enqueueUploadedWorksheet
NextJob(id, uploadedAt) ==
  [worksheet_id |-> id, state |-> "queued", attempts |-> 0, queued_at |-> uploadedAt]

\* { ...existing, ...nextJob }
MergeJob(existing, nextJob) ==
  [worksheet_id |-> nextJob.worksheet_id,
   state        |-> nextJob.state,
   attempts     |-> nextJob.attempts,
   queued_at    |-> nextJob.queued_at,
   started_at   |-> existing.started_at]

PushJob(jobs, nextJob) ==
  Append(jobs, [worksheet_id |-> nextJob.worksheet_id,
                state        |-> nextJob.state,
                attempts     |-> nextJob.attempts,
                queued_at    |-> nextJob.queued_at,
                started_at   |-> NoTime])

UpsertJobAlwaysPush(jobs, nextJob) == PushJob(jobs, nextJob)

UpsertJobKeepExisting(jobs, nextJob) ==
  IF IndexOf(jobs, nextJob.worksheet_id) > 0 THEN jobs ELSE PushJob(jobs, nextJob)

UpsertJob(jobs, nextJob) ==
  LET existingIndex == IndexOf(jobs, nextJob.worksheet_id)
  IN  IF existingIndex > 0
      THEN [jobs EXCEPT ![existingIndex] = MergeJob(jobs[existingIndex], nextJob)]
      ELSE PushJob(jobs, nextJob)

NextQueueJobKeepsStamp(job, state, t) ==
  [worksheet_id |-> job.worksheet_id,
   state        |-> state,
   attempts     |-> IF state = "processing"
                    THEN (IF IsFinite(job.attempts) THEN job.attempts + 1 ELSE 1)
                    ELSE (IF IsFinite(job.attempts) THEN job.attempts ELSE 0),
   queued_at    |-> IF job.queued_at = NoTime THEN t ELSE job.queued_at,
   started_at   |-> IF state = "processing" THEN t ELSE job.started_at]

NextQueueJobCountsFailure(job, state, t) ==
  [worksheet_id |-> job.worksheet_id,
   state        |-> state,
   attempts     |-> IF state \in {"processing", "failed"} THEN job.attempts + 1
                    ELSE job.attempts,
   queued_at    |-> IF job.queued_at = NoTime THEN t ELSE job.queued_at,
   started_at   |-> IF state = "processing" THEN t ELSE NoTime]

\* the callback of queue.jobs.map in updateQueueState, for a matching job
NextQueueJob(job, state, t) ==
  LET attempts == IF state = "processing"
                  THEN (IF IsFinite(job.attempts) THEN job.attempts + 1 ELSE 1)
                  ELSE (IF IsFinite(job.attempts) THEN job.attempts ELSE 0)
      started  == IF state = "processing" THEN t ELSE NoTime
      queuedAt == IF job.queued_at = NoTime THEN t ELSE job.queued_at
  IN  [worksheet_id |-> job.worksheet_id,
       state        |-> state,
       attempts     |-> attempts,
       queued_at    |-> queuedAt,
       started_at   |-> started]

\* the document updateQueueState writes, from the document it read
UpdateQueueJobs(jobs, id, state, t) ==
  LET found  == \E i \in DOMAIN jobs : jobs[i].worksheet_id = id
      mapped == [i \in DOMAIN jobs |->
                   IF jobs[i].worksheet_id # id THEN jobs[i]
                   ELSE NextQueueJob(jobs[i], state, t)]
  IN  IF found THEN mapped
      ELSE Append(jobs, [worksheet_id |-> id,
                         state        |-> state,
                         attempts     |-> IF state = "processing" THEN 1 ELSE 0,
                         queued_at    |-> t,
                         started_at   |-> IF state = "processing" THEN t ELSE NoTime])

----------------------------------------------------------------------------
(* Metadata records                                                        *)

\* metadata written by enqueueUploadedWorksheet and ensureMetadataFromIntake
FreshMetadata(uploadedAt) ==
  [state |-> "queued", uploaded_at |-> uploadedAt,
   integrated_at |-> NoTime, last_error |-> NoError]

PatchProcessingKeepsError(current) == [current EXCEPT !.state = "processing"]

\* { ...current, ...patch } for the three patches the worker applies
PatchProcessing(current) ==
  [current EXCEPT !.state = "processing", !.last_error = NoError]

PatchIntegrated(current, t) ==
  [current EXCEPT !.state = "integrated", !.integrated_at = t, !.last_error = NoError]

PatchFailed(current, errorMessage) ==
  [current EXCEPT !.state = "failed", !.last_error = errorMessage]

----------------------------------------------------------------------------
(* Job discovery: resolveWorksheetIds                                      *)

RECURSIVE Dedupe(_)
DedupeNone(list) == list

\* [...new Set(list)] : first occurrences, in order
Dedupe(list) ==
  IF list = <<>> THEN <<>>
  ELSE LET init == Dedupe(SubSeq(list, 1, Len(list) - 1))
           last == list[Len(list)]
       IN  IF \E i \in DOMAIN init : init[i] = last THEN init ELSE Append(init, last)

RECURSIVE IdsOf(_)
IdsOf(jobs) ==
  IF jobs = <<>> THEN <<>>
  ELSE <<jobs[1].worksheet_id>> \o IdsOf(Tail(jobs))

IsStaleAlways(job, nowMs) == TRUE

\* const stale = !Number.isFinite(startedMs) || nowMs - startedMs >= staleProcessingMs
IsStale(job, nowMs) ==
  \/ job.started_at = NoTime
  \/ nowMs - job.started_at >= StaleProcessingMs

SelectedFromQueueUnderCap(job, m, nowMs) ==
  \/ /\ job.state = "queued"
     /\ job.attempts < MaxFailedAttempts
  \/ /\ job.state = "processing"
     /\ IsStale(job, nowMs)
  \/ /\ RetryFailedJobs
     /\ job.state = "failed"
     /\ (IF IsFinite(job.attempts) THEN job.attempts ELSE 0) < MaxFailedAttempts
     /\ isRetryableFailure(m[job.worksheet_id].last_error)

\* whether the pending-list loop pushes this job's id
SelectedFromQueue(job, m, nowMs) ==
  \/ job.state = "queued"
  \/ /\ job.state = "processing"
     /\ IsStale(job, nowMs)
  \/ /\ RetryFailedJobs
     /\ job.state = "failed"
     /\ (IF IsFinite(job.attempts) THEN job.attempts ELSE 0) < MaxFailedAttempts
     /\ isRetryableFailure(m[job.worksheet_id].last_error)

QueuedFromQueue(jobs, m, nowMs) ==
  IdsOf(SelectSeq(jobs, LAMBDA job : SelectedFromQueue(job, m, nowMs)))

\* whether the metadata scan pushes this record's id
SelectedFromMetadata(record) ==
  /\ record # NoMeta
  /\ \/ record.state = "queued"
     \/ /\ RetryFailedJobs
        /\ record.state = "failed"
        /\ isRetryableFailure(record.last_error)

DiscoveredFromMetadata(m) ==
  SelectSeq(DirOrder, LAMBDA id : SelectedFromMetadata(m[id]))

\* the metadata store after the intake scan ran ensureMetadataFromIntake
ensureMetadataFromIntake(m, art) ==
  [id \in WorksheetIds |->
     IF art[id] # NoTime /\ m[id] = NoMeta THEN FreshMetadata(art[id]) ELSE m[id]]

DiscoveredFromIntake(m, art) ==
  SelectSeq(DirOrder,
            LAMBDA id : /\ art[id] # NoTime
                        /\ ensureMetadataFromIntake(m, art)[id].state = "queued")

resolveWorksheetIdsIgnoreTarget(targetWorksheetId, jobs, m, art, nowMs) ==
  Dedupe(QueuedFromQueue(jobs, m, nowMs)
         \o DiscoveredFromMetadata(m)
         \o DiscoveredFromIntake(m, art))

resolveWorksheetIds(targetWorksheetId, jobs, m, art, nowMs) ==
  IF targetWorksheetId # NoTarget
  THEN <<targetWorksheetId>>
  ELSE Dedupe(QueuedFromQueue(jobs, m, nowMs)
              \o DiscoveredFromMetadata(m)
              \o DiscoveredFromIntake(m, art))

InList(list, id) == \E i \in DOMAIN list : list[i] = id

----------------------------------------------------------------------------
(* Atomic store: one JSON file, its directory and the calls working on it  *)

Writers == {1, 2}               \* concurrent writeJsonAtomic calls on the file
Pids    == {1, 2}               \* process.pid of the processes sharing the root
Dest    == <<0, 0>>             \* filePath
TmpNames == Pids \X (1..MaxTime) \* `${filePath}.${process.pid}.${Date.now()}.tmp`
Names   == {Dest} \cup TmpNames

Hole    == <<-1, 0>>            \* bytes of a file that were never written
\* the serialized document of call v, written in two chunks (0: the content
\* before any call)
DataOf(v) == <<<<v, 1>>, <<v, 2>>>>

\* a write of chunk c at chunk offset k
PutAt(content, k, c) ==
  [i \in 1..(IF k > Len(content) THEN k ELSE Len(content)) |->
     IF i = k THEN c ELSE IF i <= Len(content) THEN content[i] ELSE Hole]

\* JSON.parse succeeds and yields the old or one of the written values
Parses(raw) == \E v \in {0} \cup Writers : raw = DataOf(v)

NoArg == [kind |-> "none"]

FsInit ==
  /\ fsDir = [n \in Names |-> IF n = Dest THEN 1 ELSE 0]
  /\ fsData = <<DataOf(0)>>
  /\ wrPc = [x \in Writers |-> "idle"]
  /\ wrTmp = [x \in Writers |-> Dest]
  /\ wrIno = [x \in Writers |-> 0]
  /\ rdPc = "idle"
  /\ rdIno = 0
  /\ rdData = <<>>

\* shippable/<id> does not exist
NoOutput == [files |-> "absent", attempt |-> 0]

PipeInit == shippable = [id \in WorksheetIds |-> NoOutput]

NoTimer == [state |-> "none", due |-> NoTime]

\* no run call in progress
RunIdle ==
  /\ rTimeoutMs = 0
  /\ rChild = "none"
  /\ rFinished = FALSE
  /\ rTimeoutId = NoTimer
  /\ rHardKillId = NoTimer
  /\ rSettled = <<>>
  /\ rSignals = <<>>
  /\ rStdout = <<>>
  /\ rStderr = <<>>

\* no ensureStorageLayout call in progress: the call createApp awaits has
\* returned and pending.json exists
NoLayoutCall == [pc |-> "idle", wrote |-> TRUE, returned |-> TRUE]

\* parseArgs: mode is codex unless --mode= says otherwise
OptionInit == wMode = [w \in Workers |-> "codex"]

\* no moveFileSafe call under check
NoMove == [pc |-> "idle", content |-> "none", src |-> "absent", dst |-> "absent",
           xdev |-> FALSE, ret |-> "none"]

MoveInit == mv = NoMove

\* every file parses
InfraInit ==
  /\ OptionInit
  /\ MoveInit
  /\ corrupt = {}
  /\ layout = [p \in Pids |-> NoLayoutCall]

LeafInit ==
  /\ arg = NoArg
  /\ FsInit
  /\ wrPid = [x \in Writers |-> 1]
  /\ PipeInit
  /\ RunIdle
  /\ InfraInit

----------------------------------------------------------------------------
(* Initial state: after ensureStorageLayout on an empty storage root       *)

Op(name, id, ret) == [op |-> name, id |-> id, ret |-> ret]

WorkerInit ==
  /\ wPhase = [w \in Workers |-> "idle"]
  /\ wIds = [w \in Workers |-> <<>>]
  /\ wPos = [w \in Workers |-> 0]
  /\ wTarget = [w \in Workers |-> NoTarget]
  /\ wMetaRead = [w \in Workers |-> NoMeta]
  /\ wQueueRead = [w \in Workers |-> <<>>]
  /\ wErr = [w \in Workers |-> NoError]
  /\ wState = [w \in Workers |-> "queued"]
  /\ wRuns = 0

IntakeInit ==
  /\ lockChain = <<>>
  /\ ePc = "idle"
  /\ eId = NoTarget
  /\ eUploadedAt = NoTime
  /\ eQueue = <<>>
  /\ eCalls = 0

Init ==
  /\ meta = [id \in WorksheetIds |-> NoMeta]
  /\ queue = <<>>
  /\ intake = [id \in WorksheetIds |-> NoTime]
  /\ now = 1
  /\ enqueued = {}
  /\ lastOp = Op("none", NoTarget, NoMeta)
  /\ WorkerInit
  /\ IntakeInit
  /\ LeafInit

----------------------------------------------------------------------------
(* Operations, one action per call                                         *)

Tick ==
  /\ now < MaxTime
  /\ now' = now + 1
  /\ UNCHANGED <<repoVars, lastOp, workerVars, intakeVars, leafVars>>

\* enqueueUploadedWorksheet, run to completion under the write lock
Enqueue(id) ==
  /\ ePc = "idle" /\ lockChain = <<>>
  /\ intake' = [intake EXCEPT ![id] = now]
  /\ meta' = [meta EXCEPT ![id] = FreshMetadata(now)]
  /\ queue' = UpsertJob(queue, NextJob(id, now))
  /\ enqueued' = enqueued \cup {id}
  /\ lastOp' = Op("enqueue", id, FreshMetadata(now))
  /\ UNCHANGED <<now, workerVars, intakeVars, leafVars>>

\* main: parseArgs and resolveWorksheetIds
Discover(w, target) ==
  /\ wPhase[w] = "idle"
  /\ LET ids == resolveWorksheetIds(target, queue, meta, intake, now)
     IN  /\ wIds' = [wIds EXCEPT ![w] = ids]
         /\ wPos' = [wPos EXCEPT ![w] = 1]
         /\ wPhase' = [wPhase EXCEPT ![w] = IF ids = <<>> THEN "idle" ELSE "claim"]
  /\ wTarget' = [wTarget EXCEPT ![w] = target]
  /\ meta' = IF target # NoTarget THEN meta ELSE ensureMetadataFromIntake(meta, intake)
  /\ lastOp' = Op("discover", target, NoMeta)
  /\ UNCHANGED <<queue, intake, now, enqueued, wMetaRead, wQueueRead, wErr, wState,
                 intakeVars, leafVars>>

StartRun(w, target) ==
  /\ Discover(w, target)
  /\ UNCHANGED wRuns

CurrentId(w) == wIds[w][wPos[w]]

\* the for loop of main moves on to the next worksheet id
Advance(w) ==
  /\ wPos' = [wPos EXCEPT ![w] = wPos[w] + 1]
  /\ wPhase' = [wPhase EXCEPT ![w] = IF wPos[w] < Len(wIds[w]) THEN "claim" ELSE "idle"]

\* processWorksheet throws "No metadata found", markFailure's updateMetadata
\* throws "Missing metadata" out of the catch block: main rejects, exit(1)
ClaimMissingMetadata(w) ==
  /\ wPhase[w] = "claim"
  /\ meta[CurrentId(w)] = NoMeta
  /\ wPhase' = [wPhase EXCEPT ![w] = "idle"]
  /\ lastOp' = Op("abort", CurrentId(w), NoMeta)
  /\ UNCHANGED <<repoVars, now, wIds, wPos, wTarget, wMetaRead, wQueueRead, wErr, wState,
                 wRuns, intakeVars, leafVars>>

\* processWorksheet up to the claim: updateMetadata + updateQueueState
ClaimWrites(w) ==
  /\ wPhase[w] = "claim"
  /\ LET id == CurrentId(w)
     IN  /\ meta[id] # NoMeta
         /\ meta' = [meta EXCEPT ![id] = PatchProcessing(meta[id])]
         /\ queue' = UpdateQueueJobs(queue, id, "processing", now)
         /\ lastOp' = Op("claim", id, NoMeta)
  /\ wPhase' = [wPhase EXCEPT ![w] = "pipeline"]
  /\ UNCHANGED <<intake, now, enqueued, wIds, wPos, wTarget, wMetaRead, wQueueRead, wErr,
                 wState, wRuns, intakeVars, leafVars>>

\* the claim, cut off at MaxAttempts attempts
Claim(w) ==
  /\ wPhase[w] = "claim"
  /\ IndexOf(queue, CurrentId(w)) > 0 => JobOf(queue, CurrentId(w)).attempts < MaxAttempts
  /\ ClaimWrites(w)

\* the catch block of main: markFailure, then the loop goes on
MarkFailure(w, message) ==
  /\ LET id == CurrentId(w)
     IN  /\ meta' = [meta EXCEPT ![id] = PatchFailed(meta[id], message)]
         /\ queue' = UpdateQueueJobs(queue, id, "failed", now)
         /\ lastOp' = Op("fail", id, NoMeta)
  /\ Advance(w)
  /\ UNCHANGED <<intake, now, enqueued, wIds, wTarget, wMetaRead, wQueueRead, wErr,
                 wState, wRuns, intakeVars, leafVars>>

\* a pipeline step throws; the catch block of main runs markFailure
Fail(w, message) ==
  /\ wPhase[w] = "pipeline"
  /\ MarkFailure(w, message)

\* the final writes of processWorksheet, then the loop goes on
FinalWrites(w) ==
  /\ LET id == CurrentId(w)
     IN  /\ meta' = [meta EXCEPT ![id] = PatchIntegrated(meta[id], now)]
         /\ queue' = UpdateQueueJobs(queue, id, "completed", now)
         /\ lastOp' = Op("finalize", id, NoMeta)
  /\ Advance(w)
  /\ UNCHANGED <<intake, now, enqueued, wIds, wTarget, wMetaRead, wQueueRead, wErr,
                 wState, wRuns, intakeVars, leafVars>>

\* all pipeline steps passed; processWorksheet writes the final state
Finalize(w) ==
  /\ wPhase[w] = "pipeline"
  /\ FinalWrites(w)

Next ==
  \/ Tick
  \/ \E id \in WorksheetIds : Enqueue(id)
  \/ \E w \in SeqWorkers, target \in WorksheetIds \cup {NoTarget} : StartRun(w, target)
  \/ \E w \in SeqWorkers : ClaimMissingMetadata(w)
  \/ \E w \in SeqWorkers : Claim(w)
  \/ \E w \in SeqWorkers, message \in PipelineErrors : Fail(w, message)
  \/ \E w \in SeqWorkers : Finalize(w)

Spec == Init /\ [][Next]_vars

----------------------------------------------------------------------------
(* Properties of the repository and of job discovery, one call at a time   *)

Selected(id) == InList(resolveWorksheetIds(NoTarget, queue, meta, intake, now), id)

\* C4: after enqueue of an id completes, its metadata record is queued with
\* integrated_at and last_error null, and its single pending entry is queued
\* with attempts 0 and queued_at equal to the metadata's uploaded_at.
C4_EnqueuePostcondition ==
  \A id \in WorksheetIds :
    (lastOp.op = "enqueue" /\ lastOp.id = id) =>
      /\ meta[id].state = "queued"
      /\ meta[id].integrated_at = NoTime
      /\ meta[id].last_error = NoError
      /\ Count(queue, id) = 1
      /\ JobOf(queue, id).state = "queued"
      /\ JobOf(queue, id).attempts = 0
      /\ JobOf(queue, id).queued_at = meta[id].uploaded_at

\* an enqueue that completed over an entry a worker had claimed before
C4_Witness ==
  /\ lastOp.op = "enqueue"
  /\ Count(queue, lastOp.id) = 1
  /\ JobOf(queue, lastOp.id).started_at # NoTime
  /\ JobOf(queue, lastOp.id).queued_at > 1

\* C6: with retries enabled and no explicit target, discovery selects a failed
\* job iff its attempts are below the cap and its last_error is transient.
C6_RetrySelection ==
  \A i \in DOMAIN queue :
    LET job == queue[i]
        id  == job.worksheet_id
        retryable == /\ job.attempts < MaxFailedAttempts
                     /\ isRetryableFailure(meta[id].last_error)
    IN  (RetryFailedJobs /\ job.state = "failed" /\ meta[id].state = "failed") =>
          (Selected(id) <=> retryable)

PermanentErrors == {ErrBuild, ErrNoRoot}

ClaimedOnce(id) ==
  /\ meta[id].state = "processing"
  /\ Count(queue, id) = 1
  /\ JobOf(queue, id).state = "processing"
  /\ JobOf(queue, id).attempts = 1

FailedOnce(id) ==
  /\ meta[id].state = "failed"
  /\ meta[id].last_error \in PermanentErrors
  /\ Count(queue, id) = 1
  /\ JobOf(queue, id).state = "failed"
  /\ JobOf(queue, id).attempts = 1

NoExplicitRun == \A w \in Workers : wPhase[w] # "idle" => wTarget[w] = NoTarget

\* C8: a job claimed once that fails with a non-transient error ends failed in
\* metadata and pending list with attempts 1, and stays so through every later
\* step of batch runs without explicit target, until it is enqueued again.
C8_PermanentFailureNotRetried ==
  [][\A id \in WorksheetIds :
       /\ (ClaimedOnce(id) /\ meta'[id].state = "failed"
             /\ meta'[id].last_error \in PermanentErrors) => FailedOnce(id)'
       /\ (FailedOnce(id) /\ NoExplicitRun) =>
             (FailedOnce(id)' \/ meta'[id].state = "queued")]_vars

\* a later batch run without target ran discovery and left the failed job out
C8_Witness ==
  \E id \in WorksheetIds, w \in Workers :
    /\ FailedOnce(id)
    /\ lastOp.op = "discover" /\ lastOp.id = NoTarget
    /\ wTarget[w] = NoTarget
    /\ ~InList(wIds[w], id)

\* C11: integrated is terminal: a metadata record that a worker stamped with
\* integrated_at stays in state integrated through every later worker run,
\* with or without an explicit target (only a new upload starts it over).
C11_IntegratedIsTerminal ==
  \A id \in WorksheetIds :
    meta[id].integrated_at # NoTime => meta[id].state = "integrated"

WorkerOps == {"claim", "fail", "finalize"}

WorkerTransitions ==
  {<<"queued", "processing">>, <<"processing", "integrated">>,
   <<"processing", "failed">>, <<"failed", "processing">>}

\* C12: every change of a metadata state made by a worker step is one of
\* queued->processing, processing->integrated, processing->failed,
\* failed->processing.
C12_WorkerTransitions ==
  [][\A id \in WorksheetIds :
       (lastOp'.op \in WorkerOps /\ meta'[id].state # meta[id].state) =>
         <<meta[id].state, meta'[id].state>> \in WorkerTransitions]_vars

\* C13: when a pipeline step after the claim throws, the job ends with
\* metadata state failed and last_error set to the error summary, and its
\* pending entry failed with the attempts value the claim left (neither
\* incremented again nor reset).
C13_FailurePersisted ==
  [][\A w \in Workers :
       (wPhase[w] = "pipeline" /\ wPos'[w] # wPos[w] /\ lastOp'.op = "fail") =>
         LET id == CurrentId(w)
         IN  /\ meta'[id].state = "failed"
             /\ meta'[id].last_error \in PipelineErrors
             /\ meta'[id].integrated_at = meta[id].integrated_at
             /\ Count(queue', id) = 1
             /\ JobOf(queue', id).state = "failed"
             /\ IndexOf(queue, id) > 0
             /\ JobOf(queue', id).attempts = JobOf(queue, id).attempts]_vars

\* the second attempt of a job failed: its entry is failed with attempts 2
C13_Witness ==
  /\ lastOp.op = "fail"
  /\ meta[lastOp.id].state = "failed"
  /\ meta[lastOp.id].last_error = ErrBuild
  /\ JobOf(queue, lastOp.id).state = "failed"
  /\ JobOf(queue, lastOp.id).attempts = 2

\* C14: a batch run that obtained a list of ids ends only after it attempted
\* every id of the list, and every attempt leaves a terminal record
\* (integrated or failed), also for an id whose metadata record is missing.
C14_BatchNeverAborts ==
  /\ \A w \in Workers :
       (wPhase[w] = "idle" /\ wIds[w] # <<>>) => wPos[w] > Len(wIds[w])
  /\ lastOp.op \in {"fail", "finalize", "abort"} =>
       meta[lastOp.id].state \in {"integrated", "failed"}

\* C29: a pending-list entry has a started_at field only while its state is
\* processing, after any sequence of enqueue, claim, fail and finalize
\* operations.
C29_StartedAtOnlyWhileProcessing ==
  \A i \in DOMAIN queue : queue[i].started_at # NoTime => queue[i].state = "processing"

\* C32: a metadata record in state integrated has an integrated_at stamp and
\* no last_error, a record in state processing has no last_error, and a
\* record in state failed has a last_error.
C32_RecordShape ==
  \A id \in WorksheetIds :
    /\ meta[id].state = "integrated" =>
         (meta[id].integrated_at # NoTime /\ meta[id].last_error = NoError)
    /\ meta[id].state = "processing" => meta[id].last_error = NoError
    /\ meta[id].state = "failed" => meta[id].last_error # NoError

\* a job that failed once was claimed again and integrated: the error of the
\* first attempt is gone
C32_Witness ==
  /\ lastOp.op = "finalize"
  /\ meta[lastOp.id].state = "integrated"
  /\ meta[lastOp.id].integrated_at # NoTime
  /\ meta[lastOp.id].last_error = NoError
  /\ Count(queue, lastOp.id) = 1
  /\ JobOf(queue, lastOp.id).attempts = 2

----------------------------------------------------------------------------
(* The same calls statement by statement: the intake process runs its      *)
(* enqueue tasks through withWriteLock, the batch worker is another        *)
(* process and calls updateMetadata / updateQueueState without the lock.   *)

\* withWriteLock: the task is chained behind the calls made before it
CallEnqueue(id) ==
  /\ eCalls < MaxCalls
  /\ eCalls' = eCalls + 1
  /\ lockChain' = Append(lockChain, id)
  /\ UNCHANGED <<repoVars, now, lastOp, workerVars, ePc, eId, eUploadedAt, eQueue, leafVars>>

EnqueueStartAfterSuccessOnly ==
  /\ lastOp.op # "stop"
  /\ ePc = "idle"
  /\ lockChain # <<>>
  /\ eId' = Head(lockChain)
  /\ lockChain' = Tail(lockChain)
  /\ ePc' = "move"
  /\ UNCHANGED <<repoVars, now, lastOp, workerVars, eUploadedAt, eQueue, eCalls, leafVars>>

\* previous.then(task, task): the head of the chain starts when the lock is free
EnqueueStart ==
  /\ ePc = "idle"
  /\ lockChain # <<>>
  /\ eId' = Head(lockChain)
  /\ lockChain' = Tail(lockChain)
  /\ ePc' = "move"
  /\ UNCHANGED <<repoVars, now, lastOp, workerVars, eUploadedAt, eQueue, eCalls, leafVars>>

EnqueueMoveThenQueue ==
  /\ ePc = "move"
  /\ intake' = [intake EXCEPT ![eId] = now]
  /\ eUploadedAt' = now
  /\ ePc' = "readQueue"
  /\ UNCHANGED <<meta, queue, enqueued, now, lastOp, workerVars, lockChain, eId, eQueue,
                 eCalls, leafVars>>

\* moveFileSafe(tempFilePath, artifactAbsolutePath); uploadedAt = new Date()
EnqueueMove ==
  /\ ePc = "move"
  /\ intake' = [intake EXCEPT ![eId] = now]
  /\ eUploadedAt' = now
  /\ ePc' = "writeMeta"
  /\ UNCHANGED <<meta, queue, enqueued, now, lastOp, workerVars, lockChain, eId, eQueue,
                 eCalls, leafVars>>

\* writeJsonAtomic(metadataPath, metadata)
EnqueueWriteMeta ==
  /\ ePc = "writeMeta"
  /\ meta' = [meta EXCEPT ![eId] = FreshMetadata(eUploadedAt)]
  /\ ePc' = "readQueue"
  /\ UNCHANGED <<queue, intake, enqueued, now, lastOp, workerVars, lockChain, eId,
                 eUploadedAt, eQueue, eCalls, leafVars>>

\* readJson(config.queueFile, { jobs: [] })
EnqueueReadQueue ==
  /\ ePc = "readQueue"
  /\ eQueue' = queue
  /\ ePc' = "writeQueue"
  /\ UNCHANGED <<repoVars, now, lastOp, workerVars, lockChain, eId, eUploadedAt, eCalls, leafVars>>

\* upsert into the document read, writeJsonAtomic(config.queueFile, queue), return
EnqueueWriteQueue ==
  /\ ePc = "writeQueue"
  /\ queue' = UpsertJob(eQueue, NextJob(eId, eUploadedAt))
  /\ enqueued' = enqueued \cup {eId}
  /\ lastOp' = Op("enqueue", eId, FreshMetadata(eUploadedAt))
  /\ ePc' = "idle"
  /\ eId' = NoTarget
  /\ eUploadedAt' = NoTime
  /\ eQueue' = <<>>
  /\ UNCHANGED <<meta, intake, now, workerVars, lockChain, eCalls, leafVars>>

\* processWorksheet: metadata found, the claim's updateMetadata is called
ClaimBegin(w) ==
  /\ wPhase[w] = "claim"
  /\ meta[CurrentId(w)] # NoMeta
  /\ IndexOf(queue, CurrentId(w)) > 0 => JobOf(queue, CurrentId(w)).attempts < MaxAttempts
  /\ wState' = [wState EXCEPT ![w] = "processing"]
  /\ wPhase' = [wPhase EXCEPT ![w] = "um_read"]
  /\ UNCHANGED <<repoVars, now, lastOp, wIds, wPos, wTarget, wMetaRead, wQueueRead, wErr,
                 wRuns, intakeVars, leafVars>>

\* updateMetadata: const current = await readJson(file, null)
UpdateMetadataRead(w) ==
  /\ wPhase[w] = "um_read"
  /\ wMetaRead' = [wMetaRead EXCEPT ![w] = meta[CurrentId(w)]]
  /\ wPhase' = [wPhase EXCEPT ![w] = IF meta[CurrentId(w)] = NoMeta THEN "idle" ELSE "um_write"]
  /\ UNCHANGED <<repoVars, now, lastOp, wIds, wPos, wTarget, wQueueRead, wErr, wState,
                 wRuns, intakeVars, leafVars>>

\* { ...current, ...patch } for the state being written
Patched(current, state, errorMessage, t) ==
  CASE state = "processing" -> PatchProcessing(current)
    [] state = "integrated" -> PatchIntegrated(current, t)
    [] OTHER -> PatchFailed(current, errorMessage)

\* updateMetadata: await writeJsonAtomic(file, next)
UpdateMetadataWrite(w) ==
  /\ wPhase[w] = "um_write"
  /\ meta' = [meta EXCEPT ![CurrentId(w)] = Patched(wMetaRead[w], wState[w], wErr[w], now)]
  /\ wPhase' = [wPhase EXCEPT ![w] = "uq_read"]
  /\ UNCHANGED <<queue, intake, enqueued, now, lastOp, wIds, wPos, wTarget, wMetaRead,
                 wQueueRead, wErr, wState, wRuns, intakeVars, leafVars>>

\* updateQueueState: const queue = await readJson(QUEUE_FILE, { jobs: [] })
UpdateQueueRead(w) ==
  /\ wPhase[w] = "uq_read"
  /\ wQueueRead' = [wQueueRead EXCEPT ![w] = queue]
  /\ wPhase' = [wPhase EXCEPT ![w] = "uq_write"]
  /\ UNCHANGED <<repoVars, now, lastOp, wIds, wPos, wTarget, wMetaRead, wErr, wState,
                 wRuns, intakeVars, leafVars>>

\* the pending-list state that goes with a metadata state
QueueStateOf(state) == IF state = "integrated" THEN "completed" ELSE state

\* updateQueueState: await writeJsonAtomic(QUEUE_FILE, queue)
UpdateQueueWrite(w) ==
  /\ wPhase[w] = "uq_write"
  /\ queue' = UpdateQueueJobs(wQueueRead[w], CurrentId(w), QueueStateOf(wState[w]), now)
  /\ lastOp' = Op(IF wState[w] = "processing" THEN "claim"
                  ELSE IF wState[w] = "integrated" THEN "finalize" ELSE "fail",
                  CurrentId(w), NoMeta)
  /\ IF wState[w] = "processing"
     THEN wPhase' = [wPhase EXCEPT ![w] = "pipeline"] /\ wPos' = wPos
     ELSE Advance(w)
  /\ wMetaRead' = [wMetaRead EXCEPT ![w] = NoMeta]
  /\ wQueueRead' = [wQueueRead EXCEPT ![w] = <<>>]
  /\ wErr' = [wErr EXCEPT ![w] = NoError]
  /\ wState' = [wState EXCEPT ![w] = "queued"]
  /\ UNCHANGED <<meta, intake, enqueued, now, wIds, wTarget, wRuns, intakeVars, leafVars>>

\* a pipeline step throws: main catches and calls markFailure
PipelineThrows(w, message) ==
  /\ wPhase[w] = "pipeline"
  /\ wErr' = [wErr EXCEPT ![w] = message]
  /\ wState' = [wState EXCEPT ![w] = "failed"]
  /\ wPhase' = [wPhase EXCEPT ![w] = "um_read"]
  /\ UNCHANGED <<repoVars, now, lastOp, wIds, wPos, wTarget, wMetaRead, wQueueRead,
                 wRuns, intakeVars, leafVars>>

\* all pipeline steps passed: processWorksheet goes on to the final writes
PipelinePasses(w) ==
  /\ wPhase[w] = "pipeline"
  /\ wState' = [wState EXCEPT ![w] = "integrated"]
  /\ wPhase' = [wPhase EXCEPT ![w] = "um_read"]
  /\ UNCHANGED <<repoVars, now, lastOp, wIds, wPos, wTarget, wMetaRead, wQueueRead, wErr,
                 wRuns, intakeVars, leafVars>>

\* main of one more batch invocation, without --ws
BatchStart(w) ==
  /\ wRuns < MaxRuns
  /\ wRuns' = wRuns + 1
  /\ Discover(w, NoTarget)

NextConc ==
  \/ \E id \in WorksheetIds : CallEnqueue(id)
  \/ EnqueueStart
  \/ EnqueueMove
  \/ EnqueueWriteMeta
  \/ EnqueueReadQueue
  \/ EnqueueWriteQueue
  \/ \E w \in SeqWorkers : BatchStart(w)
  \/ \E w \in SeqWorkers : ClaimBegin(w)
  \/ \E w \in SeqWorkers : UpdateMetadataRead(w)
  \/ \E w \in SeqWorkers : UpdateMetadataWrite(w)
  \/ \E w \in SeqWorkers : UpdateQueueRead(w)
  \/ \E w \in SeqWorkers : UpdateQueueWrite(w)
  \/ \E w \in SeqWorkers, message \in PipelineErrors : PipelineThrows(w, message)
  \/ \E w \in SeqWorkers : PipelinePasses(w)

SpecConc == Init /\ [][NextConc]_vars

\* C1: every worksheet whose enqueue completed has exactly one entry in the
\* pending list, in every later state, under any interleaving of the intake
\* process and a worker run.
C1_NoJobLostOrDuplicated ==
  \A id \in enqueued : Count(queue, id) = 1

\* C2: the read-modify-write cycles on the pending-list document never
\* interleave: a call that has read the document and is about to write it back
\* still holds the document as it is, so the writes compose like calls run in
\* sequence.
C2_SerializedReadModifyWrite ==
  /\ ePc = "writeQueue" => eQueue = queue
  /\ \A w \in Workers : wPhase[w] = "uq_write" => wQueueRead[w] = queue

\* C3: the pending list never holds two entries with the same worksheet id.
C3_AtMostOneEntryPerId ==
  \A id \in WorksheetIds : Count(queue, id) <= 1

\* an enqueue upserted over an entry that updateQueueState had set to processing
C3_Witness ==
  \E id \in WorksheetIds :
    /\ Count(queue, id) = 1
    /\ JobOf(queue, id).state = "queued"
    /\ JobOf(queue, id).started_at # NoTime
    /\ lastOp.op = "enqueue"

----------------------------------------------------------------------------
(* Worker crashes: the batch process dies between two statements and a     *)
(* later invocation runs discovery over what it left behind.               *)

\* the batch process dies; its locals are gone, the files stay as they are
Crash(w) ==
  /\ wPhase[w] # "idle"
  /\ lastOp' = Op("crash", CurrentId(w), NoMeta)
  /\ wPhase' = [wPhase EXCEPT ![w] = "idle"]
  /\ wIds' = [wIds EXCEPT ![w] = <<>>]
  /\ wPos' = [wPos EXCEPT ![w] = 0]
  /\ wMetaRead' = [wMetaRead EXCEPT ![w] = NoMeta]
  /\ wQueueRead' = [wQueueRead EXCEPT ![w] = <<>>]
  /\ wErr' = [wErr EXCEPT ![w] = NoError]
  /\ wState' = [wState EXCEPT ![w] = "queued"]
  /\ UNCHANGED <<repoVars, now, wTarget, wRuns, intakeVars, leafVars>>

\* an upload that arrives while no batch run is alive
UploadBetweenRuns(id) ==
  /\ \A w \in Workers : wPhase[w] = "idle"
  /\ Enqueue(id)

NextCrash ==
  \/ Tick
  \/ \E id \in WorksheetIds : UploadBetweenRuns(id)
  \/ \E w \in SeqWorkers : StartRun(w, NoTarget)
  \/ \E w \in SeqWorkers : ClaimBegin(w)
  \/ \E w \in SeqWorkers : UpdateMetadataRead(w)
  \/ \E w \in SeqWorkers : UpdateMetadataWrite(w)
  \/ \E w \in SeqWorkers : UpdateQueueRead(w)
  \/ \E w \in SeqWorkers : UpdateQueueWrite(w)
  \/ \E w \in SeqWorkers, message \in PipelineErrors : PipelineThrows(w, message)
  \/ \E w \in SeqWorkers : PipelinePasses(w)
  \/ \E w \in SeqWorkers : Crash(w)

SpecCrash == Init /\ [][NextCrash]_vars

\* a job left in state processing with no batch run alive
Orphaned(id) ==
  /\ meta[id].state = "processing"
  /\ \A w \in Workers : wPhase[w] = "idle"

\* C15: a job a crashed worker left in state processing is selected by
\* discovery (no explicit target) unless its pending entry is processing with
\* a started_at stamp that is still inside the staleness threshold, so no job
\* stays processing for good.
C15_CrashRecovery ==
  \A id \in WorksheetIds :
    Orphaned(id) =>
      \/ Selected(id)
      \/ /\ IndexOf(queue, id) > 0
         /\ JobOf(queue, id).state = "processing"
         /\ JobOf(queue, id).started_at # NoTime
         /\ now - JobOf(queue, id).started_at < StaleProcessingMs

----------------------------------------------------------------------------
(* Two batch invocations alive at the same time, each call run to          *)
(* completion                                                              *)

NextOverlap ==
  \/ Tick
  \/ \E id \in WorksheetIds : UploadBetweenRuns(id)
  \/ \E w \in Workers : StartRun(w, NoTarget)
  \/ \E w \in Workers : Claim(w)
  \/ \E w \in Workers, message \in PipelineErrors : Fail(w, message)
  \/ \E w \in Workers : Finalize(w)

SpecOverlap == Init /\ [][NextOverlap]_vars

\* another batch run is executing the pipeline for the id
InPipelineElsewhere(w, id) ==
  \E other \in Workers \ {w} : wPhase[other] = "pipeline" /\ CurrentId(other) = id

\* C16: a batch run claims an id that another running batch run has claimed
\* (entry processing with a started_at stamp) only when the staleness
\* threshold has elapsed since that started_at.
C16_NoClaimInsideThreshold ==
  [][\A w \in Workers :
       (wPhase[w] = "claim" /\ wPhase'[w] = "pipeline") =>
         LET id == CurrentId(w)
         IN  (/\ InPipelineElsewhere(w, id)
              /\ IndexOf(queue, id) > 0
              /\ JobOf(queue, id).state = "processing"
              /\ JobOf(queue, id).started_at # NoTime)
               => now - JobOf(queue, id).started_at >= StaleProcessingMs]_vars

----------------------------------------------------------------------------
(* processWorksheet step by step: what the steps leave in shippable/<id>   *)

\* fs.rm(outDir) and fs.mkdir(outDir), outDir = shippable/<id>
PrepareWorkspace(w) ==
  /\ wPhase[w] = "pipeline"
  /\ shippable' = [shippable EXCEPT ![CurrentId(w)] = [files |-> "empty", attempt |-> 0]]
  /\ wPhase' = [wPhase EXCEPT ![w] = "build"]
  /\ UNCHANGED <<repoVars, now, lastOp, wIds, wPos, wTarget, wMetaRead, wQueueRead, wErr,
                 wState, wRuns, intakeVars, storeVars, runVars, infraVars>>

\* unzip, detectProjectRoot, the rewrite, npm install and build passed;
\* fs.cp(dist or projectRoot, outDir): the output of this attempt
CopyBuildOutput(w) ==
  /\ wPhase[w] = "build"
  /\ shippable' = [shippable EXCEPT ![CurrentId(w)] =
                     [files |-> "built", attempt |-> JobOf(queue, CurrentId(w)).attempts]]
  /\ wPhase' = [wPhase EXCEPT ![w] = "verify"]
  /\ UNCHANGED <<repoVars, now, lastOp, wIds, wPos, wTarget, wMetaRead, wQueueRead, wErr,
                 wState, wRuns, intakeVars, storeVars, runVars, infraVars>>

\* verifyShippableOutput(outDir) passed
VerifyShippableOutput(w) ==
  /\ wPhase[w] = "verify"
  /\ wPhase' = [wPhase EXCEPT ![w] = "connect"]
  /\ UNCHANGED <<repoVars, now, lastOp, wIds, wPos, wTarget, wMetaRead, wQueueRead, wErr,
                 wState, wRuns, intakeVars, leafVars>>

\* verifyOpenAiConnectivity() passed
VerifyOpenAiConnectivity(w) ==
  /\ wPhase[w] = "connect"
  /\ wPhase' = [wPhase EXCEPT ![w] = "final"]
  /\ UNCHANGED <<repoVars, now, lastOp, wIds, wPos, wTarget, wMetaRead, wQueueRead, wErr,
                 wState, wRuns, intakeVars, leafVars>>

\* a step between the workspace preparation and the final writes throws
StepThrows(w, message) ==
  /\ wPhase[w] \in {"build", "verify", "connect"}
  /\ MarkFailure(w, message)

\* both verifications passed: the final writes
FinalizeVerified(w) ==
  /\ wPhase[w] = "final"
  /\ FinalWrites(w)

NextPipeline ==
  \/ Tick
  \/ \E id \in WorksheetIds : UploadBetweenRuns(id)
  \/ \E w \in SeqWorkers, target \in WorksheetIds \cup {NoTarget} : StartRun(w, target)
  \/ \E w \in SeqWorkers : ClaimMissingMetadata(w)
  \/ \E w \in SeqWorkers : Claim(w)
  \/ \E w \in SeqWorkers : PrepareWorkspace(w)
  \/ \E w \in SeqWorkers : CopyBuildOutput(w)
  \/ \E w \in SeqWorkers : VerifyShippableOutput(w)
  \/ \E w \in SeqWorkers : VerifyOpenAiConnectivity(w)
  \/ \E w \in SeqWorkers, message \in PipelineErrors : StepThrows(w, message)
  \/ \E w \in SeqWorkers : FinalizeVerified(w)

SpecPipeline == Init /\ [][NextPipeline]_vars

\* shippable/<id> holds the output built by the current attempt of the id
HoldsOutputOfAttempt(id) ==
  /\ shippable[id].files = "built"
  /\ IndexOf(queue, id) > 0
  /\ shippable[id].attempt = JobOf(queue, id).attempts

\* C17: shippable/<id> never holds the output of an attempt that has not
\* passed both verifications or that failed, and an output published by an
\* earlier integration is still there when a later run ends failed.
C17_PublishOnlyVerified ==
  /\ \A w \in Workers :
       wPhase[w] \in {"build", "verify", "connect"} => ~HoldsOutputOfAttempt(CurrentId(w))
  /\ \A id \in WorksheetIds :
       meta[id].state = "failed" => ~HoldsOutputOfAttempt(id)
  /\ \A id \in WorksheetIds :
       (meta[id].state = "failed" /\ meta[id].integrated_at # NoTime) =>
         shippable[id].files = "built"

----------------------------------------------------------------------------
(* run: one child process, its events and the two timers                   *)

MaxChunks  == 1                 \* data events captured per stream
HardKillMs == 1                 \* the 5000 ms grace period, in clock ticks
NullCode   == -1                \* close with code null: the child died of a signal
ExitCodes  == {0, 1, NullCode}
Timeouts   == {0, 1}            \* options.timeoutMs, in clock ticks

armTimeoutAlways(timeoutMs, t) == [state |-> "pending", due |-> t + timeoutMs]

\* if (timeoutMs > 0) timeoutId = setTimeout(..., timeoutMs)
armTimeout(timeoutMs, t) ==
  IF timeoutMs > 0 THEN [state |-> "pending", due |-> t + timeoutMs] ELSE NoTimer

clearTimeoutNoop(timer) == timer

\* if (timer) clearTimeout(timer)
clearTimeout(timer) ==
  IF timer.state = "pending" THEN [timer EXCEPT !.state = "cleared"] ELSE timer

settleUnguarded(finished, settled, outcome) == Append(settled, outcome)

\* finalize(fn): fn settles the promise unless `finished` is set
settle(finished, settled, outcome) ==
  IF finished THEN settled ELSE Append(settled, outcome)

\* run(cmd, args, cwd, { timeoutMs }): spawn and the timeout timer
RunCall(timeoutMs) ==
  /\ rChild = "none"
  /\ rTimeoutMs' = timeoutMs
  /\ rChild' = "running"
  /\ rTimeoutId' = armTimeout(timeoutMs, now)
  /\ UNCHANGED <<repoVars, now, lastOp, workerVars, intakeVars, storeVars, pipeVars, infraVars,
                 rFinished, rHardKillId, rSettled, rSignals, rStdout, rStderr>>

\* child.stdout.on("data")
StdoutData ==
  /\ rChild \in {"running", "errored"}
  /\ Len(rStdout) < MaxChunks
  /\ rStdout' = Append(rStdout, "out")
  /\ UNCHANGED <<repoVars, now, lastOp, workerVars, intakeVars, storeVars, pipeVars, infraVars,
                 rTimeoutMs, rChild, rFinished, rTimeoutId, rHardKillId, rSettled,
                 rSignals, rStderr>>

\* child.stderr.on("data")
StderrData ==
  /\ rChild \in {"running", "errored"}
  /\ Len(rStderr) < MaxChunks
  /\ rStderr' = Append(rStderr, "err")
  /\ UNCHANGED <<repoVars, now, lastOp, workerVars, intakeVars, storeVars, pipeVars, infraVars,
                 rTimeoutMs, rChild, rFinished, rTimeoutId, rHardKillId, rSettled,
                 rSignals, rStdout>>

\* the body of finalize(fn), for the outcome fn produces
RunFinalize(outcome) ==
  /\ rSettled' = settle(rFinished, rSettled, outcome)
  /\ rFinished' = TRUE
  /\ rTimeoutId' = IF rFinished THEN rTimeoutId ELSE clearTimeout(rTimeoutId)
  /\ rHardKillId' = IF rFinished THEN rHardKillId ELSE clearTimeout(rHardKillId)

Outcome(kind, event, code) ==
  [kind |-> kind, event |-> event, code |-> code,
   stdout |-> rStdout, stderr |-> rStderr, at |-> now]

\* child.on("error"): the spawn failed or the child could not be killed
ChildError ==
  /\ rChild = "running"
  /\ rChild' = "errored"
  /\ RunFinalize(Outcome("reject", "error", NullCode))
  /\ UNCHANGED <<repoVars, now, lastOp, workerVars, intakeVars, storeVars, pipeVars, infraVars,
                 rTimeoutMs, rSignals, rStdout, rStderr>>

\* child.on("close", code)
ChildClose(code) ==
  /\ rChild \in {"running", "errored"}
  /\ rChild' = "closed"
  /\ RunFinalize(Outcome(IF code = 0 THEN "resolve" ELSE "reject", "close", code))
  /\ UNCHANGED <<repoVars, now, lastOp, workerVars, intakeVars, storeVars, pipeVars, infraVars,
                 rTimeoutMs, rSignals, rStdout, rStderr>>

Signal(name) == [signal |-> name, at |-> now, settled |-> rSettled # <<>>]

\* the callback of the timeout timer
TimeoutFires ==
  /\ rTimeoutId.state = "pending"
  /\ now >= rTimeoutId.due
  /\ rTimeoutId' = [rTimeoutId EXCEPT !.state = "fired"]
  /\ IF rFinished
     THEN UNCHANGED <<rStderr, rSignals, rHardKillId>>
     ELSE /\ rStderr' = Append(rStderr, "timed out")
          /\ rSignals' = Append(rSignals, Signal("SIGTERM"))
          /\ rHardKillId' = [state |-> "pending", due |-> now + HardKillMs]
  /\ UNCHANGED <<repoVars, now, lastOp, workerVars, intakeVars, storeVars, pipeVars, infraVars,
                 rTimeoutMs, rChild, rFinished, rSettled, rStdout>>

\* the callback of the hard-kill timer
HardKillFires ==
  /\ rHardKillId.state = "pending"
  /\ now >= rHardKillId.due
  /\ rHardKillId' = [rHardKillId EXCEPT !.state = "fired"]
  /\ rSignals' = IF rFinished THEN rSignals ELSE Append(rSignals, Signal("SIGKILL"))
  /\ UNCHANGED <<repoVars, now, lastOp, workerVars, intakeVars, storeVars, pipeVars, infraVars,
                 rTimeoutMs, rChild, rFinished, rTimeoutId, rSettled, rStdout, rStderr>>

NextRun ==
  \/ Tick
  \/ \E timeoutMs \in Timeouts : RunCall(timeoutMs)
  \/ StdoutData
  \/ StderrData
  \/ ChildError
  \/ \E code \in ExitCodes : ChildClose(code)
  \/ TimeoutFires
  \/ HardKillFires

SpecRun == Init /\ [][NextRun]_vars

\* C18: run settles once; it resolves only on a close with exit code 0; a
\* non-zero or null exit code or an error event rejects, and the rejection of
\* a non-zero close carries the captured stdout and stderr.
C18_SettlesOnce ==
  /\ Len(rSettled) <= 1
  /\ rChild \in {"errored", "closed"} => Len(rSettled) = 1
  /\ \A i \in DOMAIN rSettled :
       /\ rSettled[i].kind = "resolve" <=> (rSettled[i].event = "close" /\ rSettled[i].code = 0)
       /\ rSettled[i].kind \in {"resolve", "reject"}
       /\ (rSettled[i].event = "close" /\ rChild = "closed") =>
            (rSettled[i].stdout = rStdout /\ rSettled[i].stderr = rStderr)

\* the error event rejected, then the close event arrived and changed nothing
C18_Witness ==
  /\ rChild = "closed"
  /\ Len(rSettled) = 1
  /\ rSettled[1].event = "error"
  /\ rSettled[1].kind = "reject"

SentAt(name) == {rSignals[i].at : i \in {j \in DOMAIN rSignals : rSignals[j].signal = name}}

\* C19: SIGTERM is sent only when a timeout was set and has elapsed with the
\* promise unsettled; SIGKILL only after SIGTERM and at least the grace period
\* later, with the promise still unsettled; no signal follows the settlement,
\* and none is sent when the child finishes before the timeout.
C19_TimeoutEscalation ==
  /\ \A i \in DOMAIN rSignals : ~rSignals[i].settled
  /\ \A i \in DOMAIN rSignals : rSettled # <<>> => rSignals[i].at <= rSettled[1].at
  /\ \A t \in SentAt("SIGTERM") : rTimeoutMs > 0 /\ t >= rTimeoutId.due
  /\ \A k \in SentAt("SIGKILL") : \E t \in SentAt("SIGTERM") : k >= t + HardKillMs
  /\ Len(rSignals) <= 2
  /\ (rSettled # <<>> /\ rTimeoutId.state = "cleared") => rSignals = <<>>

\* the child ignored SIGTERM, got SIGKILL a grace period later and closed
C19_Witness ==
  /\ Len(rSignals) = 2
  /\ rSignals[1].signal = "SIGTERM"
  /\ rSignals[2].signal = "SIGKILL"
  /\ rSettled # <<>>
  /\ rSettled[1].code = NullCode

\* C20: once the promise has settled, neither the timeout timer nor the
\* hard-kill timer is pending, on every exit path.
C20_NoTimerLeftPending ==
  rSettled # <<>> =>
    /\ rTimeoutId.state # "pending"
    /\ rHardKillId.state # "pending"

\* the child closed after SIGTERM: the hard-kill timer was cancelled
C20_Witness ==
  /\ rSettled # <<>>
  /\ rTimeoutId.state = "fired"
  /\ rHardKillId.state = "cleared"
  /\ Len(rSignals) = 1

\* C37: once the timeout of run has fired and SIGTERM was sent, run never
\* resolves: a command that exceeded its timeout is reported as a failure,
\* even if the child then exits with code 0.
C37_TimedOutNeverResolves ==
  SentAt("SIGTERM") # {} =>
    \A i \in DOMAIN rSettled : rSettled[i].kind # "resolve"

\* the pending-list entries of the other ids, in list order
Others(jobs, id) == SelectSeq(jobs, LAMBDA job : job.worksheet_id # id)

\* a step leaves the records and the entries of every id but this one alone
Frame(id) ==
  /\ \A other \in WorksheetIds \ {id} : meta'[other] = meta[other]
  /\ Others(queue', id) = Others(queue, id)

\* C38: operations on one worksheet id leave every other id untouched: the
\* writes of enqueue(id), updateMetadata(id, patch), updateQueueState(id, state)
\* and markFailure(id) leave the pending-list entries of the other ids
\* unchanged and in the same relative order, and change no other id's
\* metadata record.
C38_OtherIdsUntouched ==
  [][/\ (ePc \in {"writeMeta", "writeQueue"} /\ ePc' # ePc) => Frame(eId)
     /\ \A w \in SeqWorkers :
          (wPhase[w] \in {"um_write", "uq_write"} /\ wPhase'[w] # wPhase[w]) =>
            Frame(CurrentId(w))]_vars

\* the part of C38 that holds: calls that run one after the other, each from
\* its read to its write, leave every other id untouched
C38_FrameOfSequentialCalls ==
  [][(lastOp' # lastOp /\ lastOp'.op \in {"enqueue", "claim", "fail", "finalize", "updateQueueState"}) =>
       Frame(lastOp'.id)]_vars

----------------------------------------------------------------------------
(* Partial enqueue: the task stops between two of its writes and a later   *)
(* batch run finds what it left behind                                     *)

\* the enqueue task rejects or the intake process dies: the lock is released
EnqueueStops ==
  /\ ePc \in {"writeMeta", "readQueue", "writeQueue"}
  /\ lastOp' = Op("stop", eId, NoMeta)
  /\ ePc' = "idle"
  /\ eId' = NoTarget
  /\ eUploadedAt' = NoTime
  /\ eQueue' = <<>>
  /\ UNCHANGED <<repoVars, now, workerVars, lockChain, eCalls, leafVars>>

\* an enqueue task that starts while no batch run is alive
EnqueueStartBetweenRuns ==
  /\ \A w \in Workers : wPhase[w] = "idle"
  /\ EnqueueStart

\* a batch run without target that starts while no enqueue task is running
RunBetweenUploads(w) ==
  /\ ePc = "idle"
  /\ StartRun(w, NoTarget)

NextPartial ==
  \/ \E id \in WorksheetIds : CallEnqueue(id)
  \/ EnqueueStartBetweenRuns
  \/ EnqueueMove
  \/ EnqueueWriteMeta
  \/ EnqueueReadQueue
  \/ EnqueueWriteQueue
  \/ EnqueueStops
  \/ \E w \in SeqWorkers : RunBetweenUploads(w)
  \/ \E w \in SeqWorkers : Claim(w)
  \/ \E w \in SeqWorkers, message \in PipelineErrors : Fail(w, message)
  \/ \E w \in SeqWorkers : Finalize(w)

SpecPartial == Init /\ [][NextPartial]_vars

\* C21 as stated: after an enqueue stopped behind the artifact move or behind
\* the metadata write, discovery without target selects the id.
C21_PartialEnqueueSelected ==
  lastOp.op = "stop" => Selected(lastOp.id)

\* C40: when enqueue rejects behind the artifact move, the metadata write or
\* the pending-list read, the pending-list document is as it was before the
\* call, and the worksheet whose upload was reported as failed is never
\* claimed by a batch run: every id a run claims had an enqueue that returned.
C40_RejectedUploadNeverProcessed ==
  /\ [][(lastOp'.op = "stop" /\ lastOp' # lastOp) => queue' = queue]_vars
  /\ [](lastOp.op = "claim" => lastOp.id \in enqueued)

\* C21, amended: the id is selected when it has no metadata record yet or its
\* record is queued; every id a run is about to claim has a metadata record,
\* and the claim leaves exactly one pending entry for it, in state processing.
C21_PartialEnqueueHeals ==
  /\ (lastOp.op = "stop" /\ meta[lastOp.id].state \in {"absent", "queued"}) =>
       Selected(lastOp.id)
  /\ \A w \in Workers : wPhase[w] = "claim" => meta[CurrentId(w)] # NoMeta
  /\ lastOp.op = "claim" =>
       /\ Count(queue, lastOp.id) = 1
       /\ JobOf(queue, lastOp.id).state = "processing"
       /\ JobOf(queue, lastOp.id).attempts >= 1

\* a run claimed an id whose only enqueue stopped before the metadata write:
\* discovery wrote its metadata and the claim appended its pending entry
C21_Witness ==
  /\ lastOp.op = "claim"
  /\ lastOp.id \notin enqueued
  /\ meta[lastOp.id].uploaded_at = intake[lastOp.id]
  /\ Count(queue, lastOp.id) = 1
  /\ JobOf(queue, lastOp.id).attempts = 1
  /\ eCalls = 1

----------------------------------------------------------------------------
(* resolveWorksheetIds as a function of the three stores                   *)

\* metadata records the repository and the worker write
DiscoveryMetaInputs ==
  {NoMeta, FreshMetadata(1), PatchProcessing(FreshMetadata(1)),
   PatchIntegrated(FreshMetadata(1), 1), PatchFailed(FreshMetadata(1), ErrBuild),
   PatchFailed(FreshMetadata(1), ErrDns)}

\* pending-list entries enqueue and updateQueueState write
DiscoveryJobInputs(id) ==
  [worksheet_id : {id}, state : {"queued"}, attempts : {0, MaxFailedAttempts},
   queued_at : {1}, started_at : {NoTime}]
  \cup [worksheet_id : {id}, state : {"processing"}, attempts : {1}, queued_at : {1},
        started_at : {NoTime, 1}]
  \cup [worksheet_id : {id}, state : {"completed"}, attempts : {1}, queued_at : {1},
        started_at : {NoTime}]
  \cup [worksheet_id : {id}, state : {"failed"}, attempts : {1, MaxFailedAttempts},
        queued_at : {1}, started_at : {NoTime}]

DiscoveryQueueInputs ==
  {<<>>}
  \cup {<<j>> : j \in DiscoveryJobInputs("a") \cup DiscoveryJobInputs("b")}
  \cup {<<j, k>> : j \in DiscoveryJobInputs("a"), k \in DiscoveryJobInputs("b")}
  \cup {<<k, j>> : j \in DiscoveryJobInputs("a"), k \in DiscoveryJobInputs("b")}

InitDiscovery ==
  /\ meta \in [WorksheetIds -> DiscoveryMetaInputs]
  /\ queue \in DiscoveryQueueInputs
  /\ intake \in [WorksheetIds -> {NoTime, 1}]
  /\ now \in {1, MaxTime}
  /\ enqueued = {}
  /\ lastOp = Op("none", NoTarget, NoMeta)
  /\ WorkerInit
  /\ IntakeInit
  /\ LeafInit

\* one call of resolveWorksheetIds on the stores as they are
DiscoverOnce(w, target) ==
  /\ lastOp.op = "none"
  /\ StartRun(w, target)

NextDiscovery ==
  \E w \in SeqWorkers : \E target \in WorksheetIds \cup {NoTarget} : DiscoverOnce(w, target)

SpecDiscovery == InitDiscovery /\ [][NextDiscovery]_vars

\* C22: given an explicit target id, discovery returns exactly the one-element
\* list holding that id, whatever the pending list, the metadata store and the
\* artifact storage hold, and it leaves all three as they were.
C22_ExplicitTargetOnly ==
  [][\A w \in SeqWorkers :
       (lastOp'.op = "discover" /\ lastOp'.id # NoTarget) =>
         /\ wIds'[w] = <<lastOp'.id>>
         /\ meta' = meta
         /\ queue' = queue
         /\ intake' = intake]_vars

\* an explicit target that no scan would have selected, next to a worksheet
\* every scan would have selected
C22_Witness ==
  /\ lastOp.op = "discover"
  /\ lastOp.id = "a"
  /\ wIds["w1"] = <<"a">>
  /\ meta["a"].state = "integrated"
  /\ intake["a"] = NoTime
  /\ Count(queue, "b") = 1
  /\ JobOf(queue, "b").state = "queued"
  /\ meta["b"].state = "queued"
  /\ intake["b"] # NoTime

\* C36: with no explicit target, discovery selects every pending-list job
\* whose state is queued, whatever its attempts and whatever the state of its
\* metadata record.
C36_QueuedAlwaysSelected ==
  [][\A w \in SeqWorkers :
       (lastOp'.op = "discover" /\ lastOp'.id = NoTarget) =>
         \A i \in DOMAIN queue :
           queue[i].state = "queued" => InList(wIds'[w], queue[i].worksheet_id)]_vars

\* a queued entry at the attempts cap whose record is integrated, selected
\* next to a queued entry that has no record at all
C36_Witness ==
  /\ lastOp.op = "discover"
  /\ lastOp.id = NoTarget
  /\ Len(queue) = 2
  /\ queue[1].state = "queued"
  /\ queue[1].attempts = MaxFailedAttempts
  /\ meta[queue[1].worksheet_id].state = "integrated"
  /\ queue[2].state = "queued"
  /\ meta[queue[2].worksheet_id] = NoMeta
  /\ wIds["w1"] = IdsOf(queue)

\* the scan that finds an id first: 1 pending list, 2 metadata scan,
\* 3 artifact-directory scan, 0 none
FoundInQueue(id) ==
  \E i \in DOMAIN queue :
    queue[i].worksheet_id = id /\ SelectedFromQueue(queue[i], meta, now)

FirstScan(id) ==
  IF FoundInQueue(id) THEN 1
  ELSE IF SelectedFromMetadata(meta[id]) THEN 2
  ELSE IF intake[id] # NoTime /\ meta[id] = NoMeta THEN 3
  ELSE 0

\* position of the id inside the scan that finds it first
PlaceInScan(id) ==
  IF FoundInQueue(id)
  THEN CHOOSE i \in DOMAIN queue :
         /\ queue[i].worksheet_id = id
         /\ SelectedFromQueue(queue[i], meta, now)
         /\ \A j \in 1..(i - 1) :
              ~(queue[j].worksheet_id = id /\ SelectedFromQueue(queue[j], meta, now))
  ELSE CHOOSE i \in DOMAIN DirOrder : DirOrder[i] = id

\* C23: the list discovery returns holds no id twice, holds exactly the ids
\* some scan finds, and is in discovery order: ids found in the pending list
\* (in list order), then ids first found by the metadata scan, then ids first
\* found by the artifact-directory scan.
C23_DedupedInDiscoveryOrder ==
  [][\A w \in SeqWorkers :
       (lastOp'.op = "discover" /\ lastOp'.id = NoTarget) =>
         LET ids == wIds'[w]
         IN  /\ \A i, j \in DOMAIN ids : i # j => ids[i] # ids[j]
             /\ \A id \in WorksheetIds : InList(ids, id) <=> FirstScan(id) # 0
             /\ \A i, j \in DOMAIN ids :
                  i < j =>
                    \/ FirstScan(ids[i]) < FirstScan(ids[j])
                    \/ /\ FirstScan(ids[i]) = FirstScan(ids[j])
                       /\ PlaceInScan(ids[i]) < PlaceInScan(ids[j])]_vars

\* b is found by the pending list and again by the metadata scan, a by the
\* metadata scan and again by the artifact-directory scan
C23_Witness ==
  /\ lastOp.op = "discover"
  /\ lastOp.id = NoTarget
  /\ wIds["w1"] = <<"b", "a">>
  /\ Len(queue) = 1
  /\ queue[1].worksheet_id = "b"
  /\ meta["b"].state = "queued"
  /\ meta["a"].state = "queued"
  /\ intake["a"] # NoTime

----------------------------------------------------------------------------
(* Batch runs on a store with files that do not parse                      *)

PendingFile == "pending"

\* readJson(QUEUE_FILE) or the readJson of the failed branch throws: the
\* rejection leaves resolveWorksheetIds
DiscoveryThrows(jobs, bad) ==
  \/ PendingFile \in bad
  \/ \E i \in DOMAIN jobs :
       /\ RetryFailedJobs
       /\ jobs[i].state = "failed"
       /\ (IF IsFinite(jobs[i].attempts) THEN jobs[i].attempts ELSE 0) < MaxFailedAttempts
       /\ jobs[i].worksheet_id \in bad

\* the directory entries a scan gets through before a readJson inside its
\* try block throws
ReadableDirPrefix(bad, entries) ==
  LET stops == {i \in DOMAIN DirOrder : DirOrder[i] \in bad \cap entries}
      first == IF stops = {} THEN Len(DirOrder) + 1
               ELSE CHOOSE i \in stops : \A j \in stops : i <= j
  IN  SubSeq(DirOrder, 1, first - 1)

MetadataEntries(m) == {id \in WorksheetIds : m[id] # NoMeta}

IntakeEntries(art) == {id \in WorksheetIds : art[id] # NoTime}

\* the metadata scan, cut short by the catch block
DiscoveredFromReadableMetadata(m, bad) ==
  SelectSeq(ReadableDirPrefix(bad, MetadataEntries(m)),
            LAMBDA id : SelectedFromMetadata(m[id]))

\* the intake scan, cut short by the catch block
DiscoveredFromReadableIntake(m, art, bad) ==
  SelectSeq(ReadableDirPrefix(bad, IntakeEntries(art)),
            LAMBDA id : /\ art[id] # NoTime
                        /\ ensureMetadataFromIntake(m, art)[id].state = "queued")

\* the metadata store after the intake scan that was cut short
ensureMetadataFromReadableIntake(m, art, bad) ==
  [id \in WorksheetIds |->
     IF InList(ReadableDirPrefix(bad, IntakeEntries(art)), id)
     THEN ensureMetadataFromIntake(m, art)[id] ELSE m[id]]

\* the content of pending.json or of an existing metadata record stops
\* being valid JSON (torn write, truncation) while no run is alive
CorruptBetweenRuns(f) ==
  /\ \A w \in Workers : wPhase[w] = "idle"
  /\ f \notin corrupt
  /\ f = PendingFile \/ (f \in WorksheetIds /\ meta[f] # NoMeta)
  /\ corrupt' = corrupt \cup {f}
  /\ lastOp' = Op("corrupt", NoTarget, NoMeta)
  /\ UNCHANGED <<repoVars, now, workerVars, intakeVars, storeVars, pipeVars, runVars,
                 layout, optionVars, moveVars>>

UploadToReadableStore(id) ==
  /\ corrupt = {}
  /\ Enqueue(id)

\* main without --ws: resolveWorksheetIds rejects, main().catch exits 1
DiscoverThrows(w) ==
  /\ wPhase[w] = "idle"
  /\ DiscoveryThrows(queue, corrupt)
  /\ lastOp' = Op("abort", NoTarget, NoMeta)
  /\ UNCHANGED <<repoVars, now, workerVars, intakeVars, leafVars>>

\* main without --ws: resolveWorksheetIds returns, the scans have swallowed
\* what their readJson calls threw
DiscoverReadable(w) ==
  /\ wPhase[w] = "idle"
  /\ ~DiscoveryThrows(queue, corrupt)
  /\ LET ids == Dedupe(QueuedFromQueue(queue, meta, now)
                       \o DiscoveredFromReadableMetadata(meta, corrupt)
                       \o DiscoveredFromReadableIntake(meta, intake, corrupt))
     IN  /\ wIds' = [wIds EXCEPT ![w] = ids]
         /\ wPos' = [wPos EXCEPT ![w] = 1]
         /\ wPhase' = [wPhase EXCEPT ![w] = IF ids = <<>> THEN "idle" ELSE "claim"]
  /\ wTarget' = [wTarget EXCEPT ![w] = NoTarget]
  /\ meta' = ensureMetadataFromReadableIntake(meta, intake, corrupt)
  /\ lastOp' = Op("discover", NoTarget, NoMeta)
  /\ UNCHANGED <<queue, intake, now, enqueued, wMetaRead, wQueueRead, wErr, wState, wRuns,
                 intakeVars, leafVars>>

\* processWorksheet's readJson throws, markFailure's updateMetadata throws
\* again out of the catch block: main rejects, exit(1)
ClaimCorrupt(w) ==
  /\ wPhase[w] = "claim"
  /\ CurrentId(w) \in corrupt
  /\ wPhase' = [wPhase EXCEPT ![w] = "idle"]
  /\ lastOp' = Op("abort", CurrentId(w), NoMeta)
  /\ UNCHANGED <<repoVars, now, wIds, wPos, wTarget, wMetaRead, wQueueRead, wErr, wState,
                 wRuns, intakeVars, leafVars>>

ClaimReadable(w) ==
  /\ wPhase[w] = "claim"
  /\ CurrentId(w) \notin corrupt
  /\ Claim(w)

NextInfra ==
  \/ \E id \in WorksheetIds : UploadToReadableStore(id)
  \/ \E f \in WorksheetIds \cup {PendingFile} : CorruptBetweenRuns(f)
  \/ \E w \in SeqWorkers : DiscoverThrows(w)
  \/ \E w \in SeqWorkers : DiscoverReadable(w)
  \/ \E w \in SeqWorkers : ClaimCorrupt(w)
  \/ \E w \in SeqWorkers : ClaimReadable(w)
  \/ \E w \in SeqWorkers, message \in PipelineErrors : Fail(w, message)
  \/ \E w \in SeqWorkers : Finalize(w)

SpecInfra == Init /\ [][NextInfra]_vars

\* C24: while the pending-list document or a metadata record is malformed
\* JSON, a batch run without target processes no job (no claim, failure or
\* final write) and does not end normally with an empty selection: the read
\* error reaches the batch caller.
C24_InfraErrorAbortsBatch ==
  corrupt # {} =>
    /\ lastOp.op \notin {"claim", "fail", "finalize"}
    /\ ~(lastOp.op = "discover" /\ \A w \in SeqWorkers : wIds[w] = <<>>)

----------------------------------------------------------------------------
(* ensureStorageLayout, statement by statement, next to enqueue calls      *)

\* no process has called ensureStorageLayout on this storage root yet
BeforeLayout == [pc |-> "idle", wrote |-> FALSE, returned |-> FALSE]

\* fileExists(config.queueFile)
PendingExists == queue # <<>> \/ \E p \in Pids : layout[p].wrote

\* an empty storage root: no pending.json, no instance started
InitLayout ==
  /\ meta = [id \in WorksheetIds |-> NoMeta]
  /\ queue = <<>>
  /\ intake = [id \in WorksheetIds |-> NoTime]
  /\ now = 1
  /\ enqueued = {}
  /\ lastOp = Op("none", NoTarget, NoMeta)
  /\ WorkerInit
  /\ IntakeInit
  /\ arg = NoArg
  /\ FsInit
  /\ wrPid = [x \in Writers |-> 1]
  /\ PipeInit
  /\ RunIdle
  /\ OptionInit
  /\ MoveInit
  /\ corrupt = {}
  /\ layout = [p \in Pids |-> BeforeLayout]

\* createApp of process p calls ensureStorageLayout; the mkdir calls
LayoutCall(p) ==
  /\ layout[p].pc = "idle"
  /\ layout' = [layout EXCEPT ![p].pc = "check"]
  /\ UNCHANGED <<repoVars, now, lastOp, workerVars, intakeVars, storeVars, pipeVars,
                 runVars, corrupt, optionVars, moveVars>>

\* if (!(await fileExists(config.queueFile)))
LayoutCheck(p) ==
  /\ layout[p].pc = "check"
  /\ layout' = [layout EXCEPT ![p] =
                  IF PendingExists
                  THEN [@ EXCEPT !.pc = "idle", !.returned = TRUE]
                  ELSE [@ EXCEPT !.pc = "write"]]
  /\ lastOp' = Op("layoutCheck", NoTarget, NoMeta)
  /\ UNCHANGED <<repoVars, now, workerVars, intakeVars, storeVars, pipeVars, runVars,
                 corrupt, optionVars, moveVars>>

\* await writeJsonAtomic(config.queueFile, { jobs: [] })
LayoutWrite(p) ==
  /\ layout[p].pc = "write"
  /\ queue' = <<>>
  /\ layout' = [layout EXCEPT ![p] = [pc |-> "idle", wrote |-> TRUE, returned |-> TRUE]]
  /\ lastOp' = Op("layoutWrite", NoTarget, NoMeta)
  /\ UNCHANGED <<meta, intake, enqueued, now, workerVars, intakeVars, storeVars, pipeVars,
                 runVars, corrupt, optionVars, moveVars>>

\* the upload handler of process 1, reachable once app.listen ran
CallEnqueueAfterLayout(id) ==
  /\ layout[1].returned
  /\ CallEnqueue(id)

NextLayout ==
  \/ \E p \in Pids : LayoutCall(p)
  \/ \E p \in Pids : LayoutCheck(p)
  \/ \E p \in Pids : LayoutWrite(p)
  \/ \E id \in WorksheetIds : CallEnqueueAfterLayout(id)
  \/ EnqueueStart
  \/ EnqueueMove
  \/ EnqueueWriteMeta
  \/ EnqueueReadQueue
  \/ EnqueueWriteQueue

SpecLayout == InitLayout /\ [][NextLayout]_vars

\* C25: a step of ensureStorageLayout, called any number of times and
\* interleaved with enqueue calls on the same storage root, leaves a
\* pending-list document that holds entries as it is.
C25_LayoutKeepsEntries ==
  [][(layout' # layout /\ queue # <<>>) => queue' = queue]_vars

----------------------------------------------------------------------------
(* Metadata records against pending-list entries                           *)

\* an enqueue task or an updateMetadata / updateQueueState pair is working on
\* the id
InProgress(id) ==
  \/ ePc # "idle" /\ eId = id
  \/ \E w \in Workers :
       /\ wPhase[w] \in {"um_read", "um_write", "uq_read", "uq_write"}
       /\ CurrentId(w) = id

LockStepPairs ==
  {<<"queued", "queued">>, <<"processing", "processing">>,
   <<"integrated", "completed">>, <<"failed", "failed">>}

\* C26: whenever no operation on a worksheet id is in progress and the id has
\* both a metadata record and a pending-list entry, the pair (metadata state,
\* entry state) is one of (queued, queued), (processing, processing),
\* (integrated, completed), (failed, failed), under any interleaving of
\* enqueue calls and a worker run.
C26_LockStep ==
  \A id \in WorksheetIds :
    (~InProgress(id) /\ meta[id] # NoMeta /\ Count(queue, id) >= 1) =>
      <<meta[id].state, JobOf(queue, id).state>> \in LockStepPairs

\* C27: job discovery is read-only: the step of a batch run that resolves the
\* worksheet ids, taken while no run is processing and no enqueue statement
\* runs, leaves every metadata record and the pending list as they were.
C27_DiscoveryReadOnly ==
  [][((\A w \in Workers : wPhase[w] = "idle")
      /\ UNCHANGED intakeVars
      /\ lastOp'.op = "discover") =>
       (meta' = meta /\ queue' = queue)]_vars

----------------------------------------------------------------------------
(* updateQueueState as a function of the pending list                      *)

\* attempts of an entry that has no finite attempts field
NotFinite == -1

\* entries as any writer may have left them, the attempts, queued_at and
\* started_at fields present or not
PendingJobInputs(id) ==
  [worksheet_id : {id}, state : QueueStates, attempts : {NotFinite, 0, 1},
   queued_at : {NoTime, 1}, started_at : {NoTime, 1}]

PendingListInputs ==
  {<<>>}
  \cup {<<j>> : j \in PendingJobInputs("a")}
  \cup {<<j, k>> : j \in PendingJobInputs("a"),
                   k \in {e \in PendingJobInputs("b") :
                            e.queued_at = 1 /\ e.started_at = NoTime}}

InitQueueState ==
  /\ meta = [id \in WorksheetIds |-> NoMeta]
  /\ queue \in PendingListInputs
  /\ intake = [id \in WorksheetIds |-> NoTime]
  /\ now \in {1, 2}
  /\ enqueued = {}
  /\ lastOp = Op("none", NoTarget, NoMeta)
  /\ WorkerInit
  /\ IntakeInit
  /\ LeafInit

\* one call updateQueueState(id, state) by run w, start to end
UpdateQueueState(w, id, state) ==
  /\ (state = "processing" /\ IndexOf(queue, id) > 0) =>
       JobOf(queue, id).attempts < MaxAttempts
  /\ queue' = UpdateQueueJobs(queue, id, state, now)
  /\ wState' = [wState EXCEPT ![w] = state]
  /\ lastOp' = Op("updateQueueState", id, NoMeta)
  /\ UNCHANGED <<meta, intake, enqueued, now, wPhase, wIds, wPos, wTarget, wMetaRead,
                 wQueueRead, wErr, wRuns, intakeVars, leafVars>>

NextQueueState ==
  \/ \E w \in SeqWorkers, id \in WorksheetIds, state \in QueueStates :
       UpdateQueueState(w, id, state)
  \/ \E id \in WorksheetIds : Enqueue(id)

SpecQueueState == InitQueueState /\ [][NextQueueState]_vars

\* C28: updateQueueState(id, processing) raises the entry's attempts by
\* exactly 1 (sets it to 1 if it was not a finite number) and stamps
\* started_at; with any other state it leaves a finite attempts value as it
\* was and removes started_at.  Over any sequence of calls the attempts of an
\* entry changes only by a call with state processing (+1) or by an enqueue
\* of its id (reset to 0).
C28_AttemptsBookkeeping ==
  [][\A id \in WorksheetIds :
       (IndexOf(queue, id) > 0 /\ IndexOf(queue', id) > 0) =>
         LET old == JobOf(queue, id)
             new == JobOf(queue', id)
         IN  IF lastOp'.op = "updateQueueState" /\ lastOp'.id = id
             THEN IF \E w \in SeqWorkers : wState'[w] = "processing"
                  THEN /\ new.attempts = IF old.attempts >= 0 THEN old.attempts + 1 ELSE 1
                       /\ new.started_at = now
                  ELSE /\ old.attempts >= 0 => new.attempts = old.attempts
                       /\ new.started_at = NoTime
             ELSE IF lastOp'.op = "enqueue" /\ lastOp'.id = id
                  THEN new.attempts = 0
                  ELSE new.attempts = old.attempts]_vars

\* an entry that came with attempts 1 and a started_at stamp was set to
\* processing and then to failed: attempts 2, no stamp
C28_Witness ==
  /\ lastOp.op = "updateQueueState"
  /\ wState["w1"] = "failed"
  /\ IndexOf(queue, lastOp.id) > 0
  /\ JobOf(queue, lastOp.id).state = "failed"
  /\ JobOf(queue, lastOp.id).attempts = 2
  /\ JobOf(queue, lastOp.id).started_at = NoTime

----------------------------------------------------------------------------
(* Automatic retry: every attempt fails with a transient error             *)

\* each worksheet is uploaded once and never enqueued again
UploadOnce(id) ==
  /\ id \notin enqueued
  /\ Enqueue(id)

\* the claim, followed up to one attempt beyond the cap
ClaimForRetry(w) ==
  /\ wPhase[w] = "claim"
  /\ IndexOf(queue, CurrentId(w)) > 0 =>
       JobOf(queue, CurrentId(w)).attempts <= MaxFailedAttempts
  /\ ClaimWrites(w)

\* npm install cannot reach the registry
FailTransient(w) == Fail(w, ErrDns)

NextRetry ==
  \/ Tick
  \/ \E id \in WorksheetIds : UploadOnce(id)
  \/ \E w \in SeqWorkers : StartRun(w, NoTarget)
  \/ \E w \in SeqWorkers : ClaimForRetry(w)
  \/ \E w \in SeqWorkers : FailTransient(w)

SpecRetry == Init /\ [][NextRetry]_vars

\* C30: a worksheet that fails with a transient error on every attempt and is
\* never enqueued again is claimed at most MAX_FAILED_ATTEMPTS times across
\* any number of batch runs without target: the attempts of its entry never
\* exceeds the cap.
C30_BoundedRetry ==
  \A i \in DOMAIN queue : queue[i].attempts <= MaxFailedAttempts

----------------------------------------------------------------------------
(* processWorksheet, every step of a job                                   *)

Modes == {"codex", "manual"}

\* a run of each mode
InitSteps ==
  /\ meta = [id \in WorksheetIds |-> NoMeta]
  /\ queue = <<>>
  /\ intake = [id \in WorksheetIds |-> NoTime]
  /\ now = 1
  /\ enqueued = {}
  /\ lastOp = Op("none", NoTarget, NoMeta)
  /\ WorkerInit
  /\ IntakeInit
  /\ arg = NoArg
  /\ FsInit
  /\ wrPid = [x \in Writers |-> 1]
  /\ PipeInit
  /\ RunIdle
  /\ corrupt = {}
  /\ layout = [p \in Pids |-> NoLayoutCall]
  /\ MoveInit
  /\ wMode \in [Workers -> Modes]

\* fs.rm / fs.mkdir of extractDir and outDir passed: unzip is next
PrepareDirs(w) ==
  /\ wPhase[w] = "pipeline"
  /\ shippable' = [shippable EXCEPT ![CurrentId(w)] = [files |-> "empty", attempt |-> 0]]
  /\ wPhase' = [wPhase EXCEPT ![w] = "extract"]
  /\ UNCHANGED <<repoVars, now, lastOp, wIds, wPos, wTarget, wMetaRead, wQueueRead, wErr,
                 wState, wRuns, intakeVars, storeVars, runVars, infraVars>>

StepAfterAlwaysRewrites(phase, mode) ==
  CASE phase = "extract"   -> "locate"
    [] phase = "locate"    -> "transform"
    [] phase = "transform" -> "sanitize"
    [] phase = "sanitize"  -> "install"
    [] phase = "install"   -> "build"

\* the statement that follows a step of processWorksheet that passed:
\* unzip, detectProjectRoot, runCodexRewrite (mode codex only),
\* sanitizeGuardrails, npm install, then npm run build and the copy
StepAfter(phase, mode) ==
  CASE phase = "extract"   -> "locate"
    [] phase = "locate"    -> IF mode = "codex" THEN "transform" ELSE "sanitize"
    [] phase = "transform" -> "sanitize"
    [] phase = "sanitize"  -> "install"
    [] phase = "install"   -> "build"

ProjectPhases == {"extract", "locate", "transform", "sanitize", "install"}

\* one of the steps between the workspace preparation and the build passed
ProjectStep(w) ==
  /\ wPhase[w] \in ProjectPhases
  /\ wPhase' = [wPhase EXCEPT ![w] = StepAfter(wPhase[w], wMode[w])]
  /\ UNCHANGED <<repoVars, now, lastOp, wIds, wPos, wTarget, wMetaRead, wQueueRead, wErr,
                 wState, wRuns, intakeVars, leafVars>>

\* one of these steps throws; the catch block of main runs markFailure
ProjectStepThrows(w, message) ==
  /\ wPhase[w] \in ProjectPhases
  /\ MarkFailure(w, message)

NextSteps ==
  \/ \E id \in WorksheetIds : UploadBetweenRuns(id)
  \/ \E w \in SeqWorkers : StartRun(w, NoTarget)
  \/ \E w \in SeqWorkers : Claim(w)
  \/ \E w \in SeqWorkers : PrepareDirs(w)
  \/ \E w \in SeqWorkers : ProjectStep(w)
  \/ \E w \in SeqWorkers, message \in PipelineErrors : ProjectStepThrows(w, message)
  \/ \E w \in SeqWorkers : CopyBuildOutput(w)
  \/ \E w \in SeqWorkers : VerifyShippableOutput(w)
  \/ \E w \in SeqWorkers : VerifyOpenAiConnectivity(w)
  \/ \E w \in SeqWorkers, message \in PipelineErrors : StepThrows(w, message)
  \/ \E w \in SeqWorkers : FinalizeVerified(w)

SpecSteps == InitSteps /\ [][NextSteps]_vars

\* the step a job is about to run, numbered in the order of section 4.5
StepRank(phase) ==
  CASE phase = "pipeline"  -> 1
    [] phase = "extract"   -> 2
    [] phase = "locate"    -> 3
    [] phase = "transform" -> 4
    [] phase = "sanitize"  -> 5
    [] phase = "install"   -> 6
    [] phase = "build"     -> 7
    [] phase = "verify"    -> 8
    [] phase = "connect"   -> 9
    [] phase = "final"     -> 10
    [] OTHER -> 0

\* C31: within one job the steps run in the order claim, prepare workspace,
\* extract, locate project root, transform (mode codex only), sanitize,
\* install, build, verify output, verify connectivity, finalize; a failed step
\* ends the job (no later step of it runs), and the final write of state
\* integrated happens only after the connectivity check passed.
C31_StepOrder ==
  [][\A w \in SeqWorkers :
       (StepRank(wPhase[w]) > 0 /\ <<wPhase[w], wPos[w]>> # <<wPhase'[w], wPos'[w]>>) =>
         IF wPos'[w] # wPos[w]
         THEN /\ lastOp'.op \in {"fail", "finalize"}
              /\ lastOp'.op = "finalize" => wPhase[w] = "final"
              /\ lastOp'.op = "fail" => meta'[lastOp'.id].state = "failed"
         ELSE /\ wPhase[w] # "final"
              /\ StepRank(wPhase'[w]) =
                   IF wPhase[w] = "locate" /\ wMode[w] = "manual"
                   THEN StepRank(wPhase[w]) + 2
                   ELSE StepRank(wPhase[w]) + 1]_vars

\* a job of a manual run failed behind its build: the output was copied, a
\* verification threw, the record is failed
C31_Witness ==
  /\ lastOp.op = "fail"
  /\ wMode["w1"] = "manual"
  /\ shippable[lastOp.id].files = "built"
  /\ meta[lastOp.id].state = "failed"
  /\ meta[lastOp.id].integrated_at = NoTime

----------------------------------------------------------------------------
(* withWriteLock: the chain of tasks of one storage root                   *)

\* a statement of the running task: it goes on or it rejects
TaskStep ==
  \/ EnqueueMove
  \/ EnqueueWriteMeta
  \/ EnqueueReadQueue
  \/ EnqueueWriteQueue
  \/ EnqueueStops

NextLock ==
  \/ \E id \in WorksheetIds : CallEnqueue(id)
  \/ EnqueueStart
  \/ EnqueueMove
  \/ EnqueueWriteMeta
  \/ EnqueueReadQueue
  \/ EnqueueWriteQueue
  \/ EnqueueStops

\* the promise reactions run once the previous promise has settled, and a
\* running task settles
SpecLock ==
  /\ Init
  /\ [][NextLock]_vars
  /\ WF_vars(EnqueueStart)
  /\ WF_vars(TaskStep)

\* C33: the chain changes only by a call appended at its end and by its head
\* starting while no task runs, so a task starts after every task called
\* before it has finished, whether that one returned or rejected; and every
\* task waiting in the chain eventually starts.
C33_WriteQueueOrder ==
  /\ [][lockChain' # lockChain =>
          \/ \E id \in WorksheetIds : lockChain' = Append(lockChain, id) /\ ePc' = ePc
          \/ /\ ePc = "idle"
             /\ ePc' = "move"
             /\ eId' = Head(lockChain)
             /\ lockChain' = Tail(lockChain)]_vars
  /\ \A id \in WorksheetIds :
       InList(lockChain, id) ~> (ePc = "move" /\ eId = id)

\* the task for a rejected behind its artifact move; the task for b, called
\* after it, ran and returned
C33_Witness ==
  /\ lastOp.op = "enqueue"
  /\ lastOp.id = "b"
  /\ "a" \notin enqueued
  /\ intake["a"] # NoTime
  /\ enqueued = {"b"}
  /\ lockChain = <<>>
  /\ ePc = "idle"

----------------------------------------------------------------------------
(* moveFileSafe, statement by statement                                    *)

FileContents == {"zip1", "zip2", "zip3", "zip4", "zip5"}

\* what a copy that failed half way leaves at the destination
Partial == "partial"

\* ensureDir / fs.rename outcomes: done, cross-volume, any other error
RenameOutcomes == {"ok", "EXDEV", "EACCES"}

\* a call on an uploaded file, the destination absent or left by an earlier
\* upload, on the same volume or not
InitMove ==
  /\ meta = [id \in WorksheetIds |-> NoMeta]
  /\ queue = <<>>
  /\ intake = [id \in WorksheetIds |-> NoTime]
  /\ now = 1
  /\ enqueued = {}
  /\ lastOp = Op("none", NoTarget, NoMeta)
  /\ WorkerInit
  /\ IntakeInit
  /\ arg = NoArg
  /\ FsInit
  /\ wrPid = [x \in Writers |-> 1]
  /\ PipeInit
  /\ RunIdle
  /\ corrupt = {}
  /\ layout = [p \in Pids |-> NoLayoutCall]
  /\ OptionInit
  /\ \E c \in FileContents, d \in FileContents \cup {"absent"}, x \in BOOLEAN :
       mv = [pc |-> "rename", content |-> c, src |-> c, dst |-> d, xdev |-> x,
             ret |-> "none"]

\* catch (error): EXDEV goes on to the copy, anything else is thrown
AfterRename(outcome) ==
  CASE outcome = "ok"    -> "return"
    [] outcome = "EXDEV" -> "copy"
    [] OTHER             -> "throw"

AfterCopyAlwaysUnlinks(copied) == "unlink"

\* await fs.copyFile(...); await fs.unlink(sourcePath)
AfterCopy(copied) == IF copied THEN "unlink" ELSE "throw"

Settle(next) == IF next = "return" THEN "ok" ELSE IF next = "throw" THEN "error" ELSE "none"

Position(next) == IF next \in {"return", "throw"} THEN "done" ELSE next

\* await fs.rename(sourcePath, destinationPath)
MoveRename(outcome) ==
  /\ mv.pc = "rename"
  /\ outcome = "ok" => ~mv.xdev
  /\ outcome = "EXDEV" => mv.xdev
  /\ mv' = [mv EXCEPT !.pc = Position(AfterRename(outcome)),
                      !.ret = Settle(AfterRename(outcome)),
                      !.src = IF outcome = "ok" THEN "absent" ELSE @,
                      !.dst = IF outcome = "ok" THEN mv.src ELSE @]
  /\ UNCHANGED <<repoVars, now, lastOp, workerVars, intakeVars, storeVars, pipeVars,
                 runVars, corrupt, layout, optionVars>>

\* await fs.copyFile(sourcePath, destinationPath)
MoveCopy(copied, left) ==
  /\ mv.pc = "copy"
  /\ mv' = [mv EXCEPT !.pc = Position(AfterCopy(copied)),
                      !.ret = Settle(AfterCopy(copied)),
                      !.dst = IF copied THEN mv.src ELSE left]
  /\ UNCHANGED <<repoVars, now, lastOp, workerVars, intakeVars, storeVars, pipeVars,
                 runVars, corrupt, layout, optionVars>>

\* await fs.unlink(sourcePath); return
MoveUnlink(unlinked) ==
  /\ mv.pc = "unlink"
  /\ mv' = [mv EXCEPT !.pc = "done",
                      !.ret = IF unlinked THEN "ok" ELSE "error",
                      !.src = IF unlinked THEN "absent" ELSE @]
  /\ UNCHANGED <<repoVars, now, lastOp, workerVars, intakeVars, storeVars, pipeVars,
                 runVars, corrupt, layout, optionVars>>

NextMove ==
  \/ \E outcome \in RenameOutcomes : MoveRename(outcome)
  \/ \E copied \in BOOLEAN : \E left \in {mv.dst, Partial} : MoveCopy(copied, left)
  \/ \E unlinked \in BOOLEAN : MoveUnlink(unlinked)

SpecMove == InitMove /\ [][NextMove]_vars

\* C34: when moveFileSafe returns, the destination holds the source's
\* content and the source is gone; when it throws, the source is still in
\* place; and the source disappears only in a step that leaves its content at
\* the destination (the rename, or the unlink behind a copy that succeeded).
C34_MoveFileSafe ==
  /\ [](mv.ret = "ok" => (mv.dst = mv.content /\ mv.src = "absent"))
  /\ [](mv.ret = "error" => mv.src = mv.content)
  /\ [][(mv.src # "absent" /\ mv'.src = "absent") => mv'.dst = mv.content]_vars

\* the cross-volume path: copied over what an earlier upload had left at the
\* destination, then unlinked
C34_Witness ==
  /\ mv.pc = "done"
  /\ mv.ret = "ok"
  /\ mv.xdev
  /\ mv.content = "zip2"
  /\ mv.src = "absent"
  /\ mv.dst = mv.content

----------------------------------------------------------------------------
(* processWorksheet and its blocking calls: the commands it spawns through *)
(* run, and the request of verifyOpenAiConnectivity                        *)

\* the steps that await run(cmd, args, cwd, { timeoutMs }): unzip,
\* codex exec, npm install, npm run build
RunPhases == {"extract", "transform", "install", "build"}

\* parsePositiveInt(process.env.<STEP>_TIMEOUT_MS, <default>): positive for
\* every step
StepTimeoutMs == 1

\* the step calls run: the child is spawned and the timeout timer armed
CallRun(w) ==
  /\ wPhase[w] \in RunPhases
  /\ RunCall(StepTimeoutMs)

\* the closure of a run call that has been awaited is gone
RunForgotten ==
  /\ rTimeoutMs' = 0
  /\ rChild' = "none"
  /\ rFinished' = FALSE
  /\ rTimeoutId' = NoTimer
  /\ rHardKillId' = NoTimer
  /\ rSettled' = <<>>
  /\ rSignals' = <<>>
  /\ rStdout' = <<>>
  /\ rStderr' = <<>>

\* await run(...) of unzip, codex exec or npm install returns
AwaitResolved(w) ==
  /\ wPhase[w] \in RunPhases \ {"build"}
  /\ rSettled # <<>>
  /\ rSettled[1].kind = "resolve"
  /\ wPhase' = [wPhase EXCEPT ![w] = StepAfter(wPhase[w], wMode[w])]
  /\ RunForgotten
  /\ UNCHANGED <<repoVars, now, lastOp, wIds, wPos, wTarget, wMetaRead, wQueueRead, wErr,
                 wState, wRuns, intakeVars, storeVars, pipeVars, infraVars>>

\* await run(npm run build) returns, then fs.cp(dist, outDir)
AwaitBuildResolved(w) ==
  /\ wPhase[w] = "build"
  /\ rSettled # <<>>
  /\ rSettled[1].kind = "resolve"
  /\ shippable' = [shippable EXCEPT ![CurrentId(w)] =
                     [files |-> "built", attempt |-> JobOf(queue, CurrentId(w)).attempts]]
  /\ wPhase' = [wPhase EXCEPT ![w] = "verify"]
  /\ RunForgotten
  /\ UNCHANGED <<repoVars, now, lastOp, wIds, wPos, wTarget, wMetaRead, wQueueRead, wErr,
                 wState, wRuns, intakeVars, storeVars, infraVars>>

\* await run(...) throws: control is in the catch block of main
AwaitRejected(w) ==
  /\ wPhase[w] \in RunPhases
  /\ rSettled # <<>>
  /\ rSettled[1].kind = "reject"
  /\ wPhase' = [wPhase EXCEPT ![w] = "catch"]
  /\ RunForgotten
  /\ UNCHANGED <<repoVars, now, lastOp, wIds, wPos, wTarget, wMetaRead, wQueueRead, wErr,
                 wState, wRuns, intakeVars, storeVars, pipeVars, infraVars>>

\* the catch block of main: markFailure, then the next id
Catch(w, message) ==
  /\ wPhase[w] = "catch"
  /\ MarkFailure(w, message)

\* detectProjectRoot or sanitizeGuardrails returns
LocalStep(w) ==
  /\ wPhase[w] \in {"locate", "sanitize"}
  /\ ProjectStep(w)

\* a step that spawns no command throws: detectProjectRoot,
\* sanitizeGuardrails, verifyShippableOutput, or verifyOpenAiConnectivity
\* when the request rejects or the answer has no output_text
LocalStepThrows(w, message) ==
  /\ wPhase[w] \in {"locate", "sanitize", "verify", "connect"}
  /\ MarkFailure(w, message)

\* package.json declares no build script: fs.cp(projectRoot, outDir)
CopyWithoutBuild(w) ==
  /\ rChild = "none"
  /\ CopyBuildOutput(w)

\* time passes while a timer of run is pending and not yet due
TimerTick ==
  /\ \/ rTimeoutId.state = "pending" /\ now < rTimeoutId.due
     \/ rHardKillId.state = "pending" /\ now < rHardKillId.due
  /\ now' = now + 1
  /\ UNCHANGED <<repoVars, lastOp, workerVars, intakeVars, leafVars>>

\* the operating system ends a child that was sent SIGKILL
KilledChildExits ==
  /\ \E i \in DOMAIN rSignals : rSignals[i].signal = "SIGKILL"
  /\ ChildClose(NullCode)

\* the upload the run works on: one worksheet, before the run starts
UploadBeforeRun(id) ==
  /\ enqueued = {}
  /\ UploadBetweenRuns(id)

\* the continuations of the worker process that are ready to run
WorkerStep(w) ==
  \/ Claim(w)
  \/ PrepareDirs(w)
  \/ CallRun(w)
  \/ AwaitResolved(w)
  \/ AwaitBuildResolved(w)
  \/ AwaitRejected(w)
  \/ \E message \in PipelineErrors : Catch(w, message)
  \/ LocalStep(w)
  \/ VerifyShippableOutput(w)
  \/ FinalizeVerified(w)

NextBlocking ==
  \/ \E id \in WorksheetIds : UploadBeforeRun(id)
  \/ \E w \in SeqWorkers : StartRun(w, NoTarget)
  \/ \E w \in SeqWorkers : Claim(w)
  \/ \E w \in SeqWorkers : PrepareDirs(w)
  \/ \E w \in SeqWorkers : CallRun(w)
  \/ \E w \in SeqWorkers : AwaitResolved(w)
  \/ \E w \in SeqWorkers : AwaitBuildResolved(w)
  \/ \E w \in SeqWorkers : AwaitRejected(w)
  \/ \E w \in SeqWorkers, message \in PipelineErrors : Catch(w, message)
  \/ \E w \in SeqWorkers : LocalStep(w)
  \/ \E w \in SeqWorkers, message \in PipelineErrors : LocalStepThrows(w, message)
  \/ \E w \in SeqWorkers : CopyWithoutBuild(w)
  \/ \E w \in SeqWorkers : VerifyShippableOutput(w)
  \/ \E w \in SeqWorkers : VerifyOpenAiConnectivity(w)
  \/ \E w \in SeqWorkers : FinalizeVerified(w)
  \/ ChildError
  \/ \E code \in ExitCodes : ChildClose(code)
  \/ TimeoutFires
  \/ HardKillFires
  \/ TimerTick

\* the event loop runs every ready continuation and every due timer, time
\* passes, and a child that was sent SIGKILL exits; the request of
\* verifyOpenAiConnectivity is awaited with no timer and nothing makes it
\* settle
SpecBlocking ==
  /\ InitSteps
  /\ [][NextBlocking]_vars
  /\ \A w \in SeqWorkers : WF_vars(WorkerStep(w))
  /\ WF_vars(TimerTick)
  /\ WF_vars(TimeoutFires)
  /\ WF_vars(HardKillFires)
  /\ WF_vars(KilledChildExits)

\* a job is between its claim and its last write
InJob(w) == StepRank(wPhase[w]) > 0 \/ wPhase[w] = "catch"

C35_SupervisedStepEnds ==
  \A w \in SeqWorkers :
    (wPhase[w] \in RunPhases /\ rChild = "running") ~> (rChild = "none")

\* a job waits for the answer of the connectivity request and no timer of
\* the worker is pending
C35_Witness ==
  /\ wPhase["w1"] = "connect"
  /\ rTimeoutId.state # "pending"
  /\ rHardKillId.state # "pending"

----------------------------------------------------------------------------
(* Pending entries and metadata records, statement by statement, with      *)
(* uploads that stop half-way, runs that crash and runs with a target      *)

\* main of one more batch invocation, with --ws=<target> or without
BatchStartWith(w, target) ==
  /\ wRuns < MaxRuns
  /\ wRuns' = wRuns + 1
  /\ Discover(w, target)

NextEntries ==
  \/ \E id \in WorksheetIds : CallEnqueue(id)
  \/ EnqueueStart
  \/ EnqueueMove
  \/ EnqueueWriteMeta
  \/ EnqueueReadQueue
  \/ EnqueueWriteQueue
  \/ EnqueueStops
  \/ \E w \in SeqWorkers, target \in WorksheetIds \cup {NoTarget} : BatchStartWith(w, target)
  \/ \E w \in SeqWorkers : ClaimMissingMetadata(w)
  \/ \E w \in SeqWorkers : ClaimBegin(w)
  \/ \E w \in SeqWorkers : UpdateMetadataRead(w)
  \/ \E w \in SeqWorkers : UpdateMetadataWrite(w)
  \/ \E w \in SeqWorkers : UpdateQueueRead(w)
  \/ \E w \in SeqWorkers : UpdateQueueWrite(w)
  \/ \E w \in SeqWorkers, message \in PipelineErrors : PipelineThrows(w, message)
  \/ \E w \in SeqWorkers : PipelinePasses(w)
  \/ \E w \in SeqWorkers : Crash(w)

SpecEntries == Init /\ [][NextEntries]_vars

\* C39: in every reachable state, the intermediate states of enqueue and of a
\* worker run and the states after a crash included, every worksheet id that
\* has a pending-list entry also has a metadata record.
C39_EntryHasMetadata ==
  \A i \in DOMAIN queue : meta[queue[i].worksheet_id] # NoMeta

\* a run with a target that has no record ended without writing an entry for
\* it, while the entry of an uploaded worksheet is in the list
C39_Witness ==
  /\ lastOp.op = "abort"
  /\ meta[lastOp.id] = NoMeta
  /\ Count(queue, lastOp.id) = 0
  /\ queue # <<>>

----------------------------------------------------------------------------
(* writeJsonAtomic and readJson, statement by statement                    *)

mainVars == <<meta, queue, intake, enqueued, lastOp, workerVars, intakeVars, pipeVars, runVars,
              infraVars>>

\* ensureDir(dir); tempPath = `${filePath}.${process.pid}.${Date.now()}.tmp`
WriteCall(x) ==
  /\ wrPc[x] = "idle"
  /\ wrTmp' = [wrTmp EXCEPT ![x] = <<wrPid[x], now>>]
  /\ wrPc' = [wrPc EXCEPT ![x] = "open"]
  /\ UNCHANGED <<mainVars, now, arg, fsDir, fsData, wrPid, wrIno, rdPc, rdIno, rdData>>

\* fs.writeFile(tempPath, ...): open with flag 'w' creates or truncates
WriteOpen(x) ==
  /\ wrPc[x] = "open"
  /\ IF fsDir[wrTmp[x]] = 0
     THEN /\ fsData' = Append(fsData, <<>>)
          /\ fsDir' = [fsDir EXCEPT ![wrTmp[x]] = Len(fsData) + 1]
          /\ wrIno' = [wrIno EXCEPT ![x] = Len(fsData) + 1]
     ELSE /\ fsData' = [fsData EXCEPT ![fsDir[wrTmp[x]]] = <<>>]
          /\ wrIno' = [wrIno EXCEPT ![x] = fsDir[wrTmp[x]]]
          /\ fsDir' = fsDir
  /\ wrPc' = [wrPc EXCEPT ![x] = "write1"]
  /\ UNCHANGED <<mainVars, now, arg, wrPid, wrTmp, rdPc, rdIno, rdData>>

\* fs.writeFile(tempPath, data): the next chunk goes out at the handle's offset
WriteChunk(x) ==
  /\ wrPc[x] \in {"write1", "write2"}
  /\ LET k == IF wrPc[x] = "write1" THEN 1 ELSE 2
     IN  fsData' = [fsData EXCEPT ![wrIno[x]] = PutAt(fsData[wrIno[x]], k, <<x, k>>)]
  /\ wrPc' = [wrPc EXCEPT ![x] = IF wrPc[x] = "write1" THEN "write2" ELSE "rename"]
  /\ UNCHANGED <<mainVars, now, arg, fsDir, wrPid, wrTmp, wrIno, rdPc, rdIno, rdData>>

\* fs.rename(tempPath, filePath) on the directory
Rename(dir, tmp) == [dir EXCEPT ![Dest] = dir[tmp], ![tmp] = 0]

\* fs.rename(tempPath, filePath); ENOENT rejects the call
WriteRename(x) ==
  /\ wrPc[x] = "rename"
  /\ IF fsDir[wrTmp[x]] = 0
     THEN /\ wrPc' = [wrPc EXCEPT ![x] = "failed"]
          /\ fsDir' = fsDir
     ELSE /\ wrPc' = [wrPc EXCEPT ![x] = "done"]
          /\ fsDir' = Rename(fsDir, wrTmp[x])
  /\ UNCHANGED <<mainVars, now, arg, fsData, wrPid, wrTmp, wrIno, rdPc, rdIno, rdData>>

\* readJson: fs.readFile opens filePath
ReadOpen ==
  /\ rdPc = "idle"
  /\ fsDir[Dest] # 0
  /\ rdIno' = fsDir[Dest]
  /\ rdPc' = "opened"
  /\ UNCHANGED <<mainVars, now, arg, fsDir, fsData, wrPc, wrPid, wrTmp, wrIno, rdData>>

\* readJson: fs.readFile reads the open file, JSON.parse gets the content
ReadData ==
  /\ rdPc = "opened"
  /\ rdData' = fsData[rdIno]
  /\ rdPc' = "done"
  /\ UNCHANGED <<mainVars, now, arg, fsDir, fsData, wrPc, wrPid, wrTmp, wrIno, rdIno>>

\* the reader calls readJson again
ReadAgain ==
  /\ rdPc = "done"
  /\ rdPc' = "idle"
  /\ rdIno' = 0
  /\ rdData' = <<>>
  /\ UNCHANGED <<mainVars, now, arg, fsDir, fsData, wrPc, wrPid, wrTmp, wrIno>>

InitFs ==
  /\ meta = [id \in WorksheetIds |-> NoMeta]
  /\ queue = <<>>
  /\ intake = [id \in WorksheetIds |-> NoTime]
  /\ now = 1
  /\ enqueued = {}
  /\ lastOp = Op("none", NoTarget, NoMeta)
  /\ WorkerInit
  /\ IntakeInit
  /\ arg = NoArg
  /\ FsInit
  /\ wrPid \in [Writers -> Pids]
  /\ PipeInit
  /\ RunIdle
  /\ InfraInit

NextFs ==
  \/ Tick
  \/ \E x \in Writers : WriteCall(x)
  \/ \E x \in Writers : WriteOpen(x)
  \/ \E x \in Writers : WriteChunk(x)
  \/ \E x \in Writers : WriteRename(x)
  \/ ReadOpen
  \/ ReadData
  \/ ReadAgain

SpecFs == InitFs /\ [][NextFs]_vars

InFlight(x) == wrPc[x] \in {"open", "write1", "write2", "rename"}

\* C9: a reader concurrent with any number of writeJsonAtomic calls parses
\* the complete old content or the complete content of one write, and no
\* two in-flight writes use the same temporary file.
C9_AtomicWrite ==
  /\ rdPc = "done" => Parses(rdData)
  /\ \A x, y \in Writers :
       (x # y /\ InFlight(x) /\ InFlight(y)) => wrTmp[x] # wrTmp[y]

----------------------------------------------------------------------------
(* getWorksheetStatus                                                      *)

\* String.prototype.trim on a state value; the states the repository writes
\* carry no white space, a blank string trims to the empty string
Trim(text) == IF text = " " THEN "" ELSE text

getWorksheetStatusPreferQueue(m, jobs, id) ==
  IF m[id] = NoMeta THEN NoMeta
  ELSE [m[id] EXCEPT !.state = IF IndexOf(jobs, id) > 0 /\ Trim(JobOf(jobs, id).state) # ""
                               THEN Trim(JobOf(jobs, id).state)
                               ELSE m[id].state]

\* the record getWorksheetStatus returns; NoMeta stands for null
getWorksheetStatus(m, jobs, id) ==
  IF m[id] = NoMeta THEN NoMeta
  ELSE LET state == IF Trim(m[id].state) # "" THEN Trim(m[id].state)
                    ELSE IF IndexOf(jobs, id) > 0 /\ Trim(JobOf(jobs, id).state) # ""
                         THEN Trim(JobOf(jobs, id).state)
                         ELSE "queued"
       IN  [state |-> state,
            uploaded_at |-> m[id].uploaded_at,
            integrated_at |-> m[id].integrated_at,
            last_error |-> m[id].last_error]

GetStatus(id) ==
  /\ lastOp.op = "none"
  /\ lastOp' = Op("getStatus", id, getWorksheetStatus(meta, queue, id))
  /\ UNCHANGED <<repoVars, now, workerVars, intakeVars, leafVars>>

\* metadata records and pending entries the repository and the worker write
MetaInputs ==
  {NoMeta} \cup [state : MetaStates, uploaded_at : {1}, integrated_at : {NoTime, 2},
                 last_error : {NoError, ErrBuild}]

JobInputs(id) ==
  [worksheet_id : {id}, state : QueueStates, attempts : {1}, queued_at : {1},
   started_at : {NoTime}]

QueueInputs ==
  {<<>>}
  \cup {<<j>> : j \in JobInputs("a") \cup JobInputs("b")}
  \cup {<<j, k>> : j \in JobInputs("a"), k \in JobInputs("b")}
  \cup {<<k, j>> : j \in JobInputs("a"), k \in JobInputs("b")}

\* any metadata record next to any pending list, in step or contradictory
InitStatus ==
  /\ meta \in [WorksheetIds -> MetaInputs]
  /\ meta["b"] = NoMeta
  /\ queue \in QueueInputs
  /\ intake = [id \in WorksheetIds |-> NoTime]
  /\ now = 1
  /\ enqueued = {}
  /\ lastOp = Op("none", NoTarget, NoMeta)
  /\ WorkerInit
  /\ IntakeInit
  /\ LeafInit

NextStatus == \E id \in WorksheetIds : GetStatus(id)

SpecStatus == InitStatus /\ [][NextStatus]_vars

\* C5: getStatus returns the metadata record's state whatever the pending
\* list says about the id, and null when the metadata record is absent, even
\* if the pending list has an entry for the id.
C5_StatusPrefersMetadata ==
  \A id \in WorksheetIds :
    (lastOp.op = "getStatus" /\ lastOp.id = id) =>
      /\ meta[id] = NoMeta => lastOp.ret = NoMeta
      /\ meta[id] # NoMeta => (lastOp.ret # NoMeta /\ lastOp.ret.state = meta[id].state)

\* a status call for an id whose pending entry contradicts its metadata
C5_Witness ==
  /\ lastOp.op = "getStatus"
  /\ meta[lastOp.id].state = "queued"
  /\ IndexOf(queue, lastOp.id) > 0
  /\ JobOf(queue, lastOp.id).state = "failed"
  /\ lastOp.ret.state = "queued"

----------------------------------------------------------------------------
(* Worksheet ids: strings are sequences of characters                      *)

Str(chars) == [type |-> "string", chars |-> chars]
NotAString == [type |-> "number", chars |-> <<>>]

DecChars == <<"0", "1", "2", "3", "4", "5", "6", "7", "8", "9">>
HexChars == <<"0", "1", "2", "3", "4", "5", "6", "7", "8", "9",
              "a", "b", "c", "d", "e", "f">>

InSeq(list, c) == \E i \in DOMAIN list : list[i] = c

RECURSIVE Decimal(_)
\* String(n) / template literal of a non-negative integer
Decimal(n) ==
  IF n < 10 THEN <<DecChars[n + 1]>>
  ELSE Decimal(n \div 10) \o <<DecChars[(n % 10) + 1]>>

\* padStart(2, "0")
PadStart2(text) == IF Len(text) < 2 THEN <<"0">> \o text ELSE text

formatUtcDate(date) ==
  Decimal(date.year) \o PadStart2(Decimal(date.month + 1)) \o PadStart2(Decimal(date.day))

RECURSIVE ToHex(_)
\* Buffer.toString("hex")
ToHex(bytes) ==
  IF bytes = <<>> THEN <<>>
  ELSE <<HexChars[(bytes[1] \div 16) + 1], HexChars[(bytes[1] % 16) + 1]>> \o ToHex(Tail(bytes))

generateWorksheetId(date, bytes) ==
  Str(<<"w", "s", "_">> \o formatUtcDate(date) \o <<"_">> \o SubSeq(ToHex(bytes), 1, 6))

\* case folding of the /i flag, for the letters the pattern names
FoldCase(c) ==
  CASE c = "A" -> "a" [] c = "B" -> "b" [] c = "C" -> "c" [] c = "D" -> "d"
    [] c = "E" -> "e" [] c = "F" -> "f" [] c = "W" -> "w" [] c = "S" -> "s"
    [] OTHER -> c

\* typeof value === "string" && /^ws_\d{8}_[a-f0-9]{6}$/i.test(value)
isWorksheetId(value) ==
  /\ value.type = "string"
  /\ Len(value.chars) = 18
  /\ FoldCase(value.chars[1]) = "w"
  /\ FoldCase(value.chars[2]) = "s"
  /\ value.chars[3] = "_"
  /\ \A i \in 4..11 : InSeq(DecChars, value.chars[i])
  /\ value.chars[12] = "_"
  /\ \A i \in 13..18 : InSeq(HexChars, FoldCase(value.chars[i]))

Dates == [year : {2026, 9999}, month : {0, 8, 9, 11}, day : {1, 9, 10, 31}]
RandomBytes == [1..4 -> {10, 171, 255}]

IdPrefix == <<"w", "s", "_", "2", "0", "2", "6", "0", "2", "2", "8", "_">>

IdCandidates ==
  { Str(IdPrefix \o <<"a", "b", "1", "2", "c", "d">>),
    Str(IdPrefix \o <<"A", "B", "1", "2", "C", "D">>),
    Str(<<"W", "S", "_", "2", "0", "2", "6", "0", "2", "2", "8", "_",
          "a", "b", "1", "2", "c", "d">>),
    Str(IdPrefix \o <<"a", "b", "1", "2", "c">>),
    Str(IdPrefix \o <<"a", "b", "1", "2", "c", "d", "d">>),
    Str(IdPrefix \o <<"a", "b", "1", "2", "c", "g">>),
    Str(<<"w", "s", "_", "2", "0", "2", "6", "0", "2", "2", "_",
          "a", "b", "1", "2", "c", "d", "e">>),
    Str(<<"w", "s", "_", "2", "0", "2", "6", "0", "2", "2", "x", "_",
          "a", "b", "1", "2", "c", "d">>),
    Str(<<>>),
    NotAString }

GenerateId ==
  /\ arg.kind = "generate"
  /\ lastOp.op = "none"
  /\ lastOp' = Op("generate", NoTarget, generateWorksheetId(arg.date, arg.bytes))
  /\ UNCHANGED <<repoVars, now, workerVars, intakeVars, leafVars>>

CheckId ==
  /\ arg.kind = "check"
  /\ lastOp.op = "none"
  /\ lastOp' = Op("isWorksheetId", NoTarget, isWorksheetId(arg.value))
  /\ UNCHANGED <<repoVars, now, workerVars, intakeVars, leafVars>>

InitId ==
  /\ meta = [id \in WorksheetIds |-> NoMeta]
  /\ queue = <<>>
  /\ intake = [id \in WorksheetIds |-> NoTime]
  /\ now = 1
  /\ enqueued = {}
  /\ lastOp = Op("none", NoTarget, NoMeta)
  /\ WorkerInit
  /\ IntakeInit
  /\ arg \in [kind : {"generate"}, date : Dates, bytes : RandomBytes]
              \cup [kind : {"check"}, value : IdCandidates]
  /\ FsInit
  /\ wrPid = [x \in Writers |-> 1]
  /\ PipeInit
  /\ RunIdle
  /\ InfraInit

NextId == GenerateId \/ CheckId

SpecId == InitId /\ [][NextId]_vars

\* ws_<8 digits>_<6 lowercase hex chars>
HasIdShape(value) ==
  /\ value.type = "string"
  /\ Len(value.chars) = 18
  /\ SubSeq(value.chars, 1, 3) = <<"w", "s", "_">>
  /\ \A i \in 4..11 : value.chars[i] \in {"0", "1", "2", "3", "4", "5", "6", "7", "8", "9"}
  /\ value.chars[12] = "_"
  /\ \A i \in 13..18 :
       value.chars[i] \in {"0", "1", "2", "3", "4", "5", "6", "7", "8", "9",
                           "a", "b", "c", "d", "e", "f"}

\* C10: every generated id has the shape ws_<8 digits>_<6 lowercase hex> and
\* is accepted by isWorksheetId, and isWorksheetId accepts exactly the strings
\* of that shape.
C10_IdShape ==
  /\ lastOp.op = "generate" => (HasIdShape(lastOp.ret) /\ isWorksheetId(lastOp.ret))
  /\ lastOp.op = "isWorksheetId" => (lastOp.ret <=> HasIdShape(arg.value))

====
